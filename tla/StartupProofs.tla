---------------------------- MODULE StartupProofs ----------------------------
(***************************************************************************)
(* What holds of the processes that start on one database, on each engine  *)
(* and from whatever an earlier release has left: every process is at a    *)
(* statement of its script, and once all of them are done, with none       *)
(* aborted, the database has everything this release works with,           *)
(* however their statements were mixed.                                    *)
(***************************************************************************)
EXTENDS Startup, FiniteSetTheorems, SequenceTheorems, WellFoundedInduction, TLAPS

\* A set of natural numbers that is not empty has a least element.
LEMMA LeastNatural ==
    ASSUME NEW S, S \subseteq Nat, S # {}
    PROVE  \E n \in S : \A m \in S : n <= m
<1>1. IsWellFoundedOn(OpToRel(<, Nat), Nat)
  BY NatLessThanWellFounded
<1>2. PICK n \in S : \A m \in S : <<m, n>> \notin OpToRel(<, Nat)
  BY <1>1, WFMin
<1>3. \A m \in S : <<m, n>> \in OpToRel(<, Nat) <=> m < n
  BY <1>2 DEF OpToRel
<1>4. \A m \in S : m \in Nat /\ n \in Nat /\ ~(m < n)
  BY <1>2, <1>3
<1>5. \A m \in S : n <= m
  BY <1>4
<1>6. QED
  BY <1>2, <1>5

-----------------------------------------------------------------------------
(* The start of the processes on one database.                             *)

\* A statement of a start is about something this release works with; what it adds brings
\* nothing else along.
Deeds == {"look", "index", "commit", "attach", "hash", "reencrypt", "healthy", "admin"}
StartParts == {"tables", "reports", "users", "tokens", "keys", "legacy", "indexes", "market", "factor",
               "admin", "plans"}
Sound ==
    {x \in [do : Deeds \union {"add"}, part : StartParts, on : Everything] :
        x.do = "add" => Born(x.on) \subseteq Everything}

\* What the tables bring along, and every row, belongs to the release.
LEMMA ThingsKnown ==
    /\ \A k \in DOMAIN Tables : Tables[k] \in Everything /\ Born(Tables[k]) \subseteq Everything
    /\ \A k \in DOMAIN MarketTables : MarketTables[k] \in Everything /\ Born(MarketTables[k]) \subseteq Everything
    /\ All(ReportColumns) \union All(ReportIndexes) \union UserColumns \union All(LlmColumns)
          \union All(TokenColumns) \union All(IndexedTables) \union All(FactorColumns)
          \union {Legacy, Admin, Plans} \subseteq Everything
<1>1. ASSUME NEW x \in All(Tables) \union All(MarketTables) PROVE Born(x) \subseteq Everything /\ x \in Born(x)
  BY <1>1 DEF Everything, Born
<1>2. /\ \A k \in DOMAIN Tables : Tables[k] \in All(Tables)
      /\ \A k \in DOMAIN MarketTables : MarketTables[k] \in All(MarketTables)
  BY DEF All
<1>3. /\ Tables[1] = <<"table", "access_logs">> /\ Tables[2] = <<"table", "reports">>
      /\ Tables[3] = <<"table", "user_llm_configs">> /\ Tables[4] = <<"table", "users">>
      /\ DOMAIN Tables = 1 .. 4
  BY DEF Tables, Things
<1>4. DOMAIN MarketTables = 1 .. 1 /\ MarketTables[1] = <<"market", "marketdata_stk_factor_pro">>
  BY DEF MarketTables, Things
<1>5. /\ All(IndexedTables) \subseteq Born(Tables[1])
      /\ All(ReportColumns) \union All(ReportIndexes) \subseteq Born(Tables[2])
      /\ All(LlmColumns) \union All(TokenColumns) \subseteq Born(Tables[3])
      /\ UserColumns \subseteq Born(Tables[4])
      /\ All(FactorColumns) \subseteq Born(MarketTables[1])
  BY <1>3, <1>4 DEF Born
<1>6. {Legacy, Admin, Plans} \subseteq Everything
  BY DEF Everything
<1>7. {1, 2, 3, 4} \subseteq DOMAIN Tables /\ 1 \in DOMAIN MarketTables
  BY <1>3, <1>4
<1> QED
  BY <1>1, <1>2, <1>5, <1>6, <1>7

\* A column brings itself.
LEMMA ColumnsBring ==
    \A x \in All(ReportColumns) \union UserColumns \union All(LlmColumns) \union All(TokenColumns)
               \union All(FactorColumns) \union {Legacy, Admin, Plans} : Born(x) = {x}
  BY DEF Born, All, ReportColumns, UserColumns, LoginColumns, AccountColumns, LlmColumns, TokenColumns,
         FactorColumns, Things, Legacy, Admin, Plans

Loose == {x \in Everything : Born(x) \subseteq Everything}

\* Statements that add what brings nothing unknown along are sound,
LEMMA AddsSound ==
    ASSUME NEW things \in Seq(Loose), NEW share \in StartParts
    PROVE  Statements("add", share, things) \in Seq(Sound)
<1>1. \A k \in 1 .. Len(things) : things[k] \in Loose
  OBVIOUS
<1>2. \A x \in Loose : [do |-> "add", part |-> share, on |-> x] \in Sound
  BY Zenon DEF Sound, Loose
<1>3. Statements("add", share, things) = [k \in 1 .. Len(things) |-> [do |-> "add", part |-> share, on |-> things[k]]]
  BY DEF Statements
<1> QED
  BY <1>1, <1>2, <1>3

\* and so are the others,
LEMMA OthersSound ==
    ASSUME NEW things \in Seq(Everything), NEW share \in StartParts, NEW do \in Deeds
    PROVE  Statements(do, share, things) \in Seq(Sound)
<1>1. \A x \in Everything : [do |-> do, part |-> share, on |-> x] \in Sound
  BY DEF Sound, Deeds
<1>2. Statements(do, share, things) = [k \in 1 .. Len(things) |-> [do |-> do, part |-> share, on |-> things[k]]]
  BY DEF Statements
<1> QED
  BY <1>1, <1>2

\* so are those that look first,
LEMMA LooksSound ==
    ASSUME NEW things \in Seq(Loose), things # <<>>, NEW share \in StartParts
    PROVE  Add(share, things) \in Seq(Sound)
<1>1. Statements("add", share, things) \in Seq(Sound)
  BY AddsSound
<1>2. Head(things) \in Everything
  BY DEF Loose
<1>3. [do |-> "look", part |-> share, on |-> Head(things)] \in Sound
  BY <1>2 DEF Sound, Deeds
<1>4. <<[do |-> "look", part |-> share, on |-> Head(things)]>> \in Seq(Sound)
  BY <1>3
<1> QED
  BY <1>1, <1>4, ConcatProperties DEF Add

\* and one on its own.
LEMMA OneSound ==
    ASSUME NEW do \in Deeds, NEW share \in StartParts
    PROVE  One(do, share) \in Seq(Sound)
<1>1. <<Admin>> \in Seq(Everything)
  BY ThingsKnown
<1> QED
  BY <1>1, OthersSound DEF One

\* A list whose members are of a set.
LEMMA ListIn ==
    ASSUME NEW S, NEW n \in Nat \ {0}, NEW f, f = [k \in 1 .. n |-> f[k]], All(f) \subseteq S
    PROVE  f \in Seq(S) /\ f # <<>>
<1>1. \A k \in 1 .. n : f[k] \in S
  BY DEF All
<1>2. f \in Seq(S) /\ Len(f) = n
  BY <1>1
<1> QED
  BY <1>2

\* The lists of things,
LEMMA Lists ==
    /\ Tables \in Seq(Loose) /\ Tables # <<>>
    /\ ReportColumns \in Seq(Loose) /\ ReportColumns # <<>>
    /\ LoginColumns \in Seq(Loose) /\ LoginColumns # <<>>
    /\ LlmColumns \in Seq(Loose) /\ LlmColumns # <<>>
    /\ AccountColumns \in Seq(Loose) /\ TokenColumns \in Seq(Loose) /\ TokenColumns # <<>>
    /\ MarketTables \in Seq(Loose) /\ MarketTables # <<>>
    /\ FactorColumns \in Seq(Loose) /\ FactorColumns # <<>>
    /\ ReportIndexes \in Seq(Everything) /\ IndexedTables \in Seq(Everything) /\ IndexedTables # <<>>
<1>1. /\ Tables = [k \in 1 .. 4 |-> Tables[k]] /\ ReportColumns = [k \in 1 .. 2 |-> ReportColumns[k]]
      /\ ReportIndexes = [k \in 1 .. 1 |-> ReportIndexes[k]] /\ LoginColumns = [k \in 1 .. 1 |-> LoginColumns[k]]
      /\ LlmColumns = [k \in 1 .. 1 |-> LlmColumns[k]] /\ AccountColumns = [k \in 1 .. 1 |-> AccountColumns[k]]
      /\ TokenColumns = [k \in 1 .. 1 |-> TokenColumns[k]] /\ IndexedTables = [k \in 1 .. 2 |-> IndexedTables[k]]
      /\ MarketTables = [k \in 1 .. 1 |-> MarketTables[k]] /\ FactorColumns = [k \in 1 .. 1 |-> FactorColumns[k]]
  BY DEF Tables, ReportColumns, ReportIndexes, LoginColumns, LlmColumns, AccountColumns, TokenColumns, IndexedTables,
         MarketTables, FactorColumns, Things
<1>2. /\ All(Tables) \subseteq Loose /\ All(MarketTables) \subseteq Loose
  BY ThingsKnown DEF All, Loose
<1>3. /\ All(ReportColumns) \subseteq Loose /\ UserColumns \subseteq Loose /\ All(LlmColumns) \subseteq Loose
      /\ All(TokenColumns) \subseteq Loose /\ All(FactorColumns) \subseteq Loose
      /\ All(ReportIndexes) \subseteq Everything /\ All(IndexedTables) \subseteq Everything
  BY ColumnsBring, ThingsKnown DEF Loose
<1>4. All(LoginColumns) \subseteq Loose /\ All(AccountColumns) \subseteq Loose
  BY <1>3 DEF UserColumns
<1>5. PICK n \in Nat \ {0} : n = 4
  OBVIOUS
<1>6. Tables \in Seq(Loose) /\ Tables # <<>>
  <2>1. All(Tables) \subseteq Loose /\ Tables = [k \in 1 .. n |-> Tables[k]]
    BY <1>1, <1>2, <1>5
  <2> QED
    BY <2>1, ListIn
<1>7. PICK m \in Nat \ {0} : m = 2
  OBVIOUS
<1>8. /\ ReportColumns \in Seq(Loose) /\ ReportColumns # <<>>
      /\ IndexedTables \in Seq(Everything) /\ IndexedTables # <<>>
  <2>1. ReportColumns = [k \in 1 .. m |-> ReportColumns[k]] /\ IndexedTables = [k \in 1 .. m |-> IndexedTables[k]]
    BY <1>1, <1>7
  <2> QED
    BY <1>3, <2>1, ListIn
<1>9. /\ LoginColumns \in Seq(Loose) /\ LoginColumns # <<>>
      /\ AccountColumns \in Seq(Loose)
      /\ LlmColumns \in Seq(Loose) /\ LlmColumns # <<>>
      /\ TokenColumns \in Seq(Loose) /\ TokenColumns # <<>>
      /\ MarketTables \in Seq(Loose) /\ MarketTables # <<>>
      /\ FactorColumns \in Seq(Loose) /\ FactorColumns # <<>>
      /\ ReportIndexes \in Seq(Everything)
  <2>1. 1 \in Nat \ {0}
    OBVIOUS
  <2> QED
    <3>1. LoginColumns \in Seq(Loose) /\ LoginColumns # <<>> /\ AccountColumns \in Seq(Loose)
      BY <1>1, <1>4, <2>1, ListIn, Zenon
    <3>2. LlmColumns \in Seq(Loose) /\ LlmColumns # <<>> /\ TokenColumns \in Seq(Loose) /\ TokenColumns # <<>>
      BY <1>1, <1>3, <2>1, ListIn, Zenon
    <3>3. MarketTables \in Seq(Loose) /\ MarketTables # <<>>
      BY <1>1, <1>2, <2>1, ListIn, Zenon
    <3>4. FactorColumns \in Seq(Loose) /\ FactorColumns # <<>> /\ ReportIndexes \in Seq(Everything)
      BY <1>1, <1>3, <2>1, ListIn, Zenon
    <3> QED
      BY <3>1, <3>2, <3>3, <3>4, Zenon
<1> QED
  BY <1>6, <1>8, <1>9

\* and the rows, with what to look for.
LEMMA RowsLoose == \A x \in {Legacy, Admin, Plans} : <<x>> \in Seq(Loose) /\ <<x>> # <<>>
<1>1. {Legacy, Admin, Plans} \subseteq Loose
  BY ColumnsBring, ThingsKnown DEF Loose
<1> QED
  BY <1>1

\* Every part of a script is a list of sound statements,
LEMMA PartsSound ==
    ASSUME NEW e
    PROVE  /\ CreateAll(e) \in Seq(Sound) /\ ReportPart(e) \in Seq(Sound) /\ UserPart(e) \in Seq(Sound)
           /\ TokenPart(e) \in Seq(Sound) /\ KeyPart(e) \in Seq(Sound) /\ LegacyPart(e) \in Seq(Sound)
           /\ IndexParts(e) \in Seq(Sound) /\ MarketPart(e) \in Seq(Sound) /\ AdminPart(e) \in Seq(Sound)
           /\ PlanPart(e) \in Seq(Sound)
<1>0. /\ \A s, t \in Seq(Sound) : s \o t \in Seq(Sound)
      /\ <<>> \in Seq(Sound)
  BY ConcatProperties
<1>1. CreateAll(e) \in Seq(Sound)
  <2>1. Add("tables", Tables) \in Seq(Sound) /\ One("commit", "tables") \in Seq(Sound)
    BY Lists, LooksSound, OneSound DEF Deeds, StartParts
  <2> QED
    BY <1>0, <2>1 DEF CreateAll
<1>2. ReportPart(e) \in Seq(Sound)
  <2>1. /\ Add("reports", ReportColumns) \in Seq(Sound) /\ One("commit", "reports") \in Seq(Sound)
        /\ Statements("index", "reports", ReportIndexes) \in Seq(Sound)
    BY Lists, LooksSound, OneSound, OthersSound DEF Deeds, StartParts
  <2> QED
    BY <1>0, <2>1 DEF ReportPart
<1>3. UserPart(e) \in Seq(Sound)
  <2>1. /\ Add("users", LoginColumns) \in Seq(Sound) /\ Add("users", LlmColumns) \in Seq(Sound)
        /\ Statements("add", "users", AccountColumns) \in Seq(Sound)
    BY Lists, LooksSound, AddsSound DEF StartParts
  <2> QED
    BY <1>0, <2>1 DEF UserPart
<1>4. TokenPart(e) \in Seq(Sound)
  <2>1. Add("tokens", TokenColumns) \in Seq(Sound) /\ One("hash", "tokens") \in Seq(Sound)
    BY Lists, LooksSound, OneSound DEF Deeds, StartParts
  <2> QED
    BY <1>0, <2>1 DEF TokenPart
<1>5. KeyPart(e) \in Seq(Sound)
  BY OneSound DEF KeyPart, Deeds, StartParts
<1>6. LegacyPart(e) \in Seq(Sound)
  <2>1. Add("legacy", <<Legacy>>) \in Seq(Sound) /\ One("attach", "legacy") \in Seq(Sound)
    BY RowsLoose, LooksSound, OneSound DEF Deeds, StartParts
  <2> QED
    BY <1>0, <2>1 DEF LegacyPart
<1>7. IndexParts(e) \in Seq(Sound)
  <2>1. Tail(IndexedTables) \in Seq(Everything)
    BY Lists
  <2>2. Statements("index", "indexes", Tail(IndexedTables)) \in Seq(Sound)
    BY <2>1, OthersSound DEF Deeds, StartParts
  <2>3. Statements("index", "indexes", IndexedTables) \in Seq(Sound)
    BY Lists, OthersSound DEF Deeds, StartParts
  <2> QED
    BY <2>2, <2>3 DEF IndexParts
<1>8. MarketPart(e) \in Seq(Sound)
  <2>1. /\ Add("market", MarketTables) \in Seq(Sound) /\ Add("factor", FactorColumns) \in Seq(Sound)
        /\ One("commit", "market") \in Seq(Sound) /\ One("commit", "factor") \in Seq(Sound)
        /\ One("healthy", "market") \in Seq(Sound)
    BY Lists, LooksSound, OneSound DEF Deeds, StartParts
  <2> QED
    BY <1>0, <2>1 DEF MarketPart
<1>9. AdminPart(e) \in Seq(Sound)
  <2>1. Admin \in Everything
    BY ThingsKnown
  <2>2. [do |-> "look", part |-> "admin", on |-> Admin] \in Sound
    BY <2>1 DEF Sound, Deeds, StartParts
  <2>3. <<[do |-> "look", part |-> "admin", on |-> Admin]>> \in Seq(Sound) /\ One("admin", "admin") \in Seq(Sound)
    BY <2>2, OneSound DEF Deeds, StartParts
  <2> QED
    BY <1>0, <2>3 DEF AdminPart
<1>10. PlanPart(e) \in Seq(Sound)
  BY RowsLoose, LooksSound DEF PlanPart, StartParts
<1> QED
  BY <1>1, <1>2, <1>3, <1>4, <1>5, <1>6, <1>7, <1>8, <1>9, <1>10

\* and so is every script.
LEMMA ScriptSound == \A e \in Engines : InitDb[e] \in Seq(Sound) /\ Lifespan[e] \in Seq(Sound)
<1> SUFFICES ASSUME NEW e \in Engines PROVE InitDb[e] \in Seq(Sound) /\ Lifespan[e] \in Seq(Sound)
  OBVIOUS
<1>1. \A s, t \in Seq(Sound) : s \o t \in Seq(Sound)
  BY ConcatProperties
<1>2. /\ InitDb[e] = CreateAll(e) \o ReportPart(e) \o UserPart(e) \o TokenPart(e) \o KeyPart(e)
                      \o LegacyPart(e) \o IndexParts(e) \o MarketPart(e)
      /\ Lifespan[e] = InitDb[e] \o AdminPart(e) \o PlanPart(e)
  BY DEF InitDb, Lifespan
<1>3. InitDb[e] \in Seq(Sound)
  BY <1>1, <1>2, PartsSound
<1> QED
  BY <1>1, <1>2, <1>3, PartsSound

Found == Everything \union {Occupied}

StartTyped ==
    /\ StartTypeOK
    /\ line = [p \in Starters |-> line[p]] /\ seen = [p \in Starters |-> seen[p]]
    /\ held = [p \in Starters |-> held[p]] /\ aborted = [p \in Starters |-> aborted[p]]

\* The script of a process.
LEMMA ScriptOf ==
    ASSUME engine \in Engines, NEW p
    PROVE  Script(p) \in Seq(Sound) /\ Len(Script(p)) \in Nat /\ DOMAIN Script(p) = 1 .. Len(Script(p))
<1>1. Script(p) \in Seq(Sound)
  BY ScriptSound DEF Script
<1> QED
  BY <1>1

\* From a place on there is a first statement that is not passed over.
LEMMA FirstLeft ==
    ASSUME NEW n \in Nat, NEW k \in 1 .. (n + 1), NEW D, n + 1 \notin D
    PROVE  \E i \in k .. (n + 1) : i \notin D /\ \A m \in k .. (i - 1) : m \in D
<1> DEFINE S == {i \in k .. (n + 1) : i \notin D}
<1>1. n + 1 \in S /\ S \subseteq Nat /\ S # {}
  OBVIOUS
<1>2. PICK i \in S : \A m \in S : i <= m
  BY <1>1, LeastNatural
<1> QED
  BY <1>2

\* Where a process goes on.
LEMMA MovesTo ==
    ASSUME engine \in Engines, NEW p, NEW k \in 1 .. (Len(Script(p)) + 1), NEW found, MoveOn(p, k, found),
           line = [q \in Starters |-> line[q]], seen = [q \in Starters |-> seen[q]], p \in Starters
    PROVE  LET script == Script(p)
               keeps == IF k \in DOMAIN script /\ script[k].part = Statement(p).part THEN found ELSE {}
           IN  /\ seen' = [seen EXCEPT ![p] = keeps]
               /\ line' = [line EXCEPT ![p] = line'[p]]
               /\ line'[p] \in k .. (Len(script) + 1)
               /\ ~(line'[p] \in DOMAIN script /\ Idle(script[line'[p]], keeps))
               /\ \A m \in k .. (line'[p] - 1) : Idle(script[m], keeps)
<1> DEFINE script == Script(p)
           keeps == IF k \in DOMAIN script /\ script[k].part = Statement(p).part THEN found ELSE {}
           done(n) == n \in DOMAIN script /\ Idle(script[n], keeps)
           next == CHOOSE n \in k..(Len(script) + 1) : ~done(n) /\ \A m \in k..(n - 1) : done(m)
<1>1. Len(script) \in Nat /\ DOMAIN script = 1 .. Len(script)
  BY ScriptOf
<1>2. line' = [line EXCEPT ![p] = next] /\ seen' = [seen EXCEPT ![p] = keeps]
  BY DEF MoveOn
<1> HIDE DEF script, keeps
<1>3. \E n \in k..(Len(script) + 1) : ~done(n) /\ \A m \in k..(n - 1) : done(m)
  <2> DEFINE D == {n \in DOMAIN script : Idle(script[n], keeps)}
  <2>1. Len(script) + 1 \notin D
    BY <1>1
  <2>2. \E i \in k .. (Len(script) + 1) : i \notin D /\ \A m \in k .. (i - 1) : m \in D
    <3> HIDE DEF D
    <3> QED
      BY <1>1, <2>1, FirstLeft DEF script
  <2> QED
    BY <2>2
<1>4. next \in k..(Len(script) + 1) /\ ~done(next) /\ \A m \in k..(next - 1) : done(m)
  <2> HIDE DEF done
  <2> QED
    BY <1>3
<1>5. line'[p] = next
  <2> HIDE DEF next
  <2> QED
    BY <1>2
<1> HIDE DEF next
<1> QED
  BY <1>2, <1>4, <1>5 DEF script, keeps

\* Behind a part there is a place.
LEMMA PlaceAfter ==
    ASSUME engine \in Engines, NEW p, NEW i \in DOMAIN Script(p)
    PROVE  LET k == AfterPart(Script(p), Script(p)[i].part)
           IN  /\ k \in (i + 1) .. (Len(Script(p)) + 1) /\ Script(p)[k - 1].part = Script(p)[i].part
               /\ \A m \in k .. Len(Script(p)) : Script(p)[m].part # Script(p)[i].part
<1> DEFINE script == Script(p)
           share == script[i].part
           n == Len(script)
           K == {k \in 2 .. (n + 1) : script[k - 1].part = share}
           S == {n + 1 - k : k \in K}
<1>1. n \in Nat /\ DOMAIN script = 1 .. n /\ i \in 1 .. n
  BY ScriptOf
<1> HIDE DEF script, n
<1>2. i + 1 \in K /\ S \subseteq Nat /\ S # {}
  BY <1>1
<1>3. PICK s \in S : \A m \in S : s <= m
  BY <1>2, LeastNatural
<1>4. PICK k \in K : s = n + 1 - k
  BY <1>3
<1>5. \A j \in K : j <= k
  <2> SUFFICES ASSUME NEW j \in K PROVE j <= k
    OBVIOUS
  <2>1. n + 1 - j \in S /\ j \in 2 .. (n + 1) /\ k \in 2 .. (n + 1)
    BY <1>4
  <2>2. s <= n + 1 - j
    BY <1>3, <2>1
  <2> QED
    BY <1>1, <1>4, <2>1, <2>2
<1>6. \A m \in k .. n : script[m].part # share
  <2> SUFFICES ASSUME NEW m \in k .. n, script[m].part = share PROVE FALSE
    OBVIOUS
  <2>1. k \in 2 .. (n + 1)
    BY <1>4
  <2>2. m + 1 \in 2 .. (n + 1) /\ (m + 1) - 1 = m
    BY <1>1, <2>1
  <2>3. m + 1 \in K
    BY <2>2
  <2>4. m + 1 <= k
    BY <1>5, <2>3
  <2> QED
    BY <1>1, <2>1, <2>4
<1>7. \E j \in 2 .. (n + 1) : script[j - 1].part = share /\ \A m \in j .. n : script[m].part # share
  BY <1>4, <1>6
<1> DEFINE after == AfterPart(script, share)
<1>8. after \in 2 .. (n + 1) /\ script[after - 1].part = share /\ \A m \in after .. n : script[m].part # share
  BY <1>7 DEF AfterPart, n
<1>9. ~(after <= i)
  <2> SUFFICES ASSUME after <= i PROVE FALSE
    OBVIOUS
  <2> HIDE DEF after
  <2> QED
    BY <1>1, <1>8
<1> HIDE DEF after
<1>10. after \in (i + 1) .. (n + 1)
  BY <1>1, <1>8, <1>9
<1> QED
  BY <1>8, <1>10 DEF after, script, n

\* Where the processes are and what they have seen.
WhereTyped ==
    /\ \A q \in Starters : line[q] \in 0 .. (Len(Script(q)) + 1) /\ seen[q] \subseteq Found
    /\ line = [q \in Starters |-> line[q]] /\ seen = [q \in Starters |-> seen[q]]

\* Where a process goes on its place and what it has seen keep their types.
LEMMA GoesOnTyped ==
    ASSUME StartTyped, UNCHANGED engine, NEW p \in Starters, NEW k \in 1 .. (Len(Script(p)) + 1),
           NEW found \in SUBSET Found, MoveOn(p, k, found)
    PROVE  WhereTyped'
<1>1. /\ engine \in Engines /\ line = [q \in Starters |-> line[q]] /\ seen = [q \in Starters |-> seen[q]]
      /\ \A q \in Starters : line[q] \in 0 .. (Len(Script(q)) + 1) /\ seen[q] \subseteq Found
  BY DEF StartTyped, StartTypeOK, Found
<1>2. /\ \E keeps \in {found, {}} : seen' = [seen EXCEPT ![p] = keeps]
      /\ line' = [line EXCEPT ![p] = line'[p]]
      /\ line'[p] \in k .. (Len(Script(p)) + 1)
  <2> DEFINE keeps == IF k \in DOMAIN Script(p) /\ Script(p)[k].part = Statement(p).part THEN found ELSE {}
  <2>1. /\ seen' = [seen EXCEPT ![p] = keeps] /\ line' = [line EXCEPT ![p] = line'[p]]
        /\ line'[p] \in k .. (Len(Script(p)) + 1)
    BY <1>1, MovesTo
  <2>2. keeps \in {found, {}}
    OBVIOUS
  <2> HIDE DEF keeps
  <2> QED
    BY <2>1, <2>2
<1>3. \A q \in Starters : Script(q)' = Script(q) /\ Len(Script(q)) \in Nat
  BY <1>1, ScriptOf DEF Script
<1>4. line'[p] \in 0 .. (Len(Script(p)) + 1)
  BY <1>2, <1>3
<1>5. \A q \in Starters : seen'[q] \subseteq Found
  BY <1>1, <1>2
<1>6. \A q \in Starters : line'[q] \in 0 .. (Len(Script(q)) + 1)
  BY <1>1, <1>2, <1>4
<1>7. line' = [q \in Starters |-> line'[q]] /\ seen' = [q \in Starters |-> seen'[q]]
  BY <1>1, <1>2
<1> QED
  BY <1>3, <1>5, <1>6, <1>7 DEF WhereTyped

\* So they do when a process fails.
LEMMA FailsTyped ==
    ASSUME StartTyped, UNCHANGED engine, NEW p \in Starters, ~Down(p), ~Serves(p), Fails(p)
    PROVE  /\ WhereTyped'
           /\ held' = [held EXCEPT ![p] = {}] /\ aborted' = [aborted EXCEPT ![p] = FALSE]
           /\ skipped' = [skipped EXCEPT ![p] = TRUE]
<1>1. /\ engine \in Engines /\ line = [q \in Starters |-> line[q]] /\ seen = [q \in Starters |-> seen[q]]
      /\ \A q \in Starters : line[q] \in 0 .. (Len(Script(q)) + 1) /\ seen[q] \subseteq Found
      /\ \A q \in Starters : Script(q)' = Script(q) /\ Len(Script(q)) \in Nat /\ DOMAIN Script(q) = 1 .. Len(Script(q))
  BY ScriptOf DEF StartTyped, StartTypeOK, Found, Script
<1>2. line[p] \in DOMAIN Script(p)
  BY <1>1 DEF Down, Serves
<1>3. CASE Statement(p).part \in {"tables", "admin", "plans"}
  <2>1. line' = [line EXCEPT ![p] = 0] /\ seen' = [seen EXCEPT ![p] = {}]
    BY <1>3 DEF Fails
  <2>2. \A q \in Starters : line'[q] \in 0 .. (Len(Script(q)) + 1) /\ seen'[q] \subseteq Found
    <3> SUFFICES ASSUME NEW q \in Starters
                 PROVE  line'[q] \in 0 .. (Len(Script(q)) + 1) /\ seen'[q] \subseteq Found
      OBVIOUS
    <3>1. CASE q = p
      <4>1. line'[q] = 0 /\ seen'[q] = {}
        BY <1>1, <2>1, <3>1
      <4> QED
        BY <1>1, <4>1
    <3>2. CASE q # p
      BY <1>1, <2>1, <3>2
    <3> QED
      BY <3>1, <3>2
  <2> QED
    BY <1>1, <2>1, <2>2 DEF Fails, WhereTyped
<1>4. CASE Statement(p).part \notin {"tables", "admin", "plans"}
  <2>1. MoveOn(p, AfterPart(Script(p), Statement(p).part), {})
    BY <1>4 DEF Fails
  <2>2. AfterPart(Script(p), Statement(p).part) \in 1 .. (Len(Script(p)) + 1)
    <3>1. AfterPart(Script(p), Statement(p).part) \in (line[p] + 1) .. (Len(Script(p)) + 1)
      BY <1>1, <1>2, PlaceAfter DEF Statement
    <3> QED
      BY <1>1, <1>2, <3>1
  <2>3. {} \in SUBSET Found
    OBVIOUS
  <2> QED
    BY <2>1, <2>2, <2>3, GoesOnTyped DEF Fails
<1> QED
  BY <1>3, <1>4

\* And when it goes through.
LEMMA ThroughTyped ==
    ASSUME StartTyped, UNCHANGED engine, NEW p \in Starters, ~Down(p), ~Serves(p), Through(p)
    PROVE  WhereTyped'
<1>1. /\ engine \in Engines /\ line[p] \in 0 .. (Len(Script(p)) + 1) /\ seen[p] \subseteq Found
      /\ Len(Script(p)) \in Nat
  BY ScriptOf DEF StartTyped, StartTypeOK, Found
<1>2. line[p] + 1 \in 1 .. (Len(Script(p)) + 1)
  BY <1>1 DEF Down, Serves
<1> QED
  BY <1>1, <1>2, GoesOnTyped DEF Through

\* What a statement is about.
LEMMA StatementSound ==
    ASSUME StartTyped, NEW p \in Starters, ~Down(p), ~Serves(p)
    PROVE  Statement(p) \in Sound
<1>1. Script(p) \in Seq(Sound) /\ Len(Script(p)) \in Nat /\ line[p] \in 0 .. (Len(Script(p)) + 1)
  BY ScriptOf DEF StartTyped, StartTypeOK
<1>2. line[p] \in 1 .. Len(Script(p))
  BY <1>1 DEF Down, Serves
<1> QED
  BY <1>1, <1>2 DEF Statement

\* A step keeps the types.
LEMMA StartStepTyped == StartTyped /\ [StartNext]_startVars => StartTyped'
<1> SUFFICES ASSUME StartTyped, [StartNext]_startVars PROVE StartTyped'
  OBVIOUS
<1> DEFINE Flag == [Starters -> BOOLEAN]
           Hold(h) == h = [q \in Starters |-> h[q]] /\ \A q \in Starters : h[q] \subseteq Everything
           Flags(a) == a = [q \in Starters |-> a[q]] /\ \A q \in Starters : a[q] \in BOOLEAN
           Data(o, t, s, a, h) == /\ o \in BOOLEAN /\ t \in {"plain", "hashed"} /\ s \in {"default", "custom"}
                                  /\ a \in BOOLEAN /\ h \in {"none", "before", "after"}
<1>0. /\ engine \in Engines /\ there \subseteq Everything /\ Data(orphans, token, secret, astray, holder)
      /\ WhereTyped /\ Hold(held) /\ Flags(aborted)
      /\ healthy \in Flag /\ skipped \in Flag /\ died \in 0 .. MaxDeaths
  BY DEF StartTyped, StartTypeOK, WhereTyped, Found
<1>a. ASSUME engine' \in Engines, there' \subseteq Everything, Data(orphans', token', secret', astray', holder'),
             WhereTyped', Hold(held'), Flags(aborted'), healthy' \in Flag, skipped' \in Flag, died' \in 0 .. MaxDeaths
      PROVE  StartTyped'
  BY <1>a, Zenon DEF StartTyped, StartTypeOK, WhereTyped, Found
<1> HIDE DEF Data
<1>b. ASSUME UNCHANGED <<engine, line, seen>> PROVE WhereTyped'
  BY <1>0, <1>b DEF WhereTyped, Script
<1>c. \A q \in Starters, x \in SUBSET Everything :
         /\ Hold([held EXCEPT ![q] = x]) /\ Hold([held EXCEPT ![q] = @ \union x])
  BY <1>0
<1>d. \A q \in Starters, b \in BOOLEAN : Flags([aborted EXCEPT ![q] = b]) /\ [skipped EXCEPT ![q] = b] \in Flag /\ [healthy EXCEPT ![q] = b] \in Flag
  BY <1>0
<1>e. {} \in SUBSET Everything /\ TRUE \in BOOLEAN /\ FALSE \in BOOLEAN
  OBVIOUS
<1> HIDE DEF Hold, Flags, Flag
<1>1. ASSUME NEW p \in Starters, Starts(p) PROVE StartTyped'
  <2>1. line' = [line EXCEPT ![p] = 1] /\ healthy' = [healthy EXCEPT ![p] = FALSE] /\ skipped' = [skipped EXCEPT ![p] = FALSE]
        /\ UNCHANGED <<engine, there, dataVars, seen, held, aborted, died>>
    BY <1>1 DEF Starts
  <2>2. WhereTyped'
    <3>1. \A q \in Starters : Script(q)' = Script(q) /\ Len(Script(q)) \in Nat
      BY <1>0, <2>1, ScriptOf DEF Script
    <3>2. \A q \in Starters : line'[q] \in 0 .. (Len(Script(q)) + 1)
      BY <1>0, <2>1, <3>1 DEF WhereTyped
    <3> QED
      BY <1>0, <2>1, <3>1, <3>2 DEF WhereTyped
  <2>3. healthy' \in Flag /\ skipped' \in Flag
    BY <1>d, <1>e, <2>1
  <2> QED
    BY <1>0, <1>a, <2>1, <2>2, <2>3 DEF dataVars
<1>f. ASSUME NEW p \in Starters, ~Down(p), ~Serves(p), UNCHANGED engine, Fails(p)
      PROVE  WhereTyped' /\ Hold(held') /\ Flags(aborted') /\ skipped' \in Flag
  <2>1. /\ WhereTyped' /\ held' = [held EXCEPT ![p] = {}] /\ aborted' = [aborted EXCEPT ![p] = FALSE]
        /\ skipped' = [skipped EXCEPT ![p] = TRUE]
    BY <1>f, FailsTyped
  <2> QED
    BY <1>c, <1>d, <1>e, <2>1
<1>g. ASSUME NEW p \in Starters, ~Down(p), ~Serves(p), UNCHANGED engine, Through(p)
      PROVE  WhereTyped'
  BY <1>g, ThroughTyped
<1>h. \A p, do : At(p, do) => ~Down(p) /\ ~Serves(p)
  BY DEF At
<1>i. \A p \in Starters : ~Down(p) /\ ~Serves(p) => Statement(p).on \in Everything
                              /\ (Statement(p).do = "add" => Born(Statement(p).on) \subseteq Everything)
  BY StatementSound DEF Sound
<1>2. ASSUME NEW p \in Starters, Look(p) PROVE StartTyped'
  <2> DEFINE kind == Statement(p).on[1]
             rows == there \union (IF holder # "none" THEN {Occupied} ELSE {})
             found == {x \in seen[p] : x[1] # kind} \union {x \in rows : x[1] = kind}
  <2>1. ~Down(p) /\ ~Serves(p) /\ UNCHANGED <<engine, there, dataVars, healthy, died>>
    BY <1>2, <1>h DEF Look
  <2>2. CASE Fails(p)
    BY <1>0, <1>a, <1>f, <2>1, <2>2 DEF dataVars
  <2>3. CASE MoveOn(p, line[p] + 1, found) /\ UNCHANGED <<held, aborted, skipped>>
    <3>1. found \in SUBSET Found
      BY <1>0 DEF WhereTyped, Found
    <3>2. line[p] + 1 \in 1 .. (Len(Script(p)) + 1)
      BY <1>0, <2>1, ScriptOf DEF WhereTyped, Down, Serves
    <3> HIDE DEF found
    <3>3. WhereTyped'
      BY <2>1, <2>3, <3>1, <3>2, GoesOnTyped
    <3> QED
      BY <1>0, <1>a, <2>1, <2>3, <3>3 DEF dataVars
  <2> QED
    BY <1>2, <2>2, <2>3 DEF Look
<1>3. ASSUME NEW p \in Starters, Adds(p) PROVE StartTyped'
  <2> DEFINE x == Statement(p).on
             waits == engine = "postgresql" /\ x[1] # "row"
  <2>1. At(p, "add") /\ ~Down(p) /\ ~Serves(p) /\ UNCHANGED <<engine, dataVars, healthy, died>>
    BY <1>3, <1>h DEF Adds
  <2>2. CASE Fails(p) /\ UNCHANGED there
    BY <1>0, <1>a, <1>f, <2>1, <2>2 DEF dataVars
  <2>3. CASE /\ Through(p)
             /\ there' = IF waits THEN there ELSE there \union Born(x)
             /\ held' = [held EXCEPT ![p] = @ \union (IF waits THEN Born(x) ELSE {})]
             /\ UNCHANGED <<aborted, skipped>>
    <3>1. Born(x) \subseteq Everything
      BY <1>i, <2>1 DEF At
    <3>2. (IF waits THEN Born(x) ELSE {}) \in SUBSET Everything /\ there' \subseteq Everything
      BY <1>0, <2>3, <3>1
    <3>3. Hold(held')
      BY <1>c, <2>3, <3>2
    <3> QED
      BY <1>0, <1>a, <1>g, <2>1, <2>3, <3>2, <3>3 DEF dataVars
  <2> QED
    BY <1>3, <2>2, <2>3 DEF Adds
<1>4. ASSUME NEW p \in Starters, AddsIndex(p) PROVE StartTyped'
  <2> DEFINE x == Statement(p).on
             waits == engine = "postgresql" /\ Statement(p).part = "reports"
  <2>1. /\ ~Down(p) /\ ~Serves(p) /\ UNCHANGED <<engine, dataVars, healthy, skipped, died>>
        /\ Through(p)
        /\ there' = IF waits THEN there ELSE there \union {x}
        /\ aborted' = [aborted EXCEPT ![p] = @ \/ (waits /\ x \in there)]
        /\ held' = [held EXCEPT ![p] = @ \union (IF waits THEN {x} ELSE {})]
    BY <1>4, <1>h DEF AddsIndex
  <2>2. x \in Everything
    BY <1>i, <2>1
  <2>3. (IF waits THEN {x} ELSE {}) \in SUBSET Everything /\ there' \subseteq Everything
    BY <1>0, <2>1, <2>2
  <2>4. Hold(held')
    BY <1>c, <2>1, <2>3
  <2>5. Flags(aborted')
    <3>1. (aborted[p] \/ (waits /\ x \in there)) \in BOOLEAN
      OBVIOUS
    <3> QED
      BY <1>d, <2>1, <3>1
  <2> QED
    BY <1>0, <1>a, <1>g, <2>1, <2>3, <2>4, <2>5 DEF dataVars
<1>5. ASSUME NEW p \in Starters, Commits(p) PROVE StartTyped'
  <2>1. /\ ~Down(p) /\ ~Serves(p) /\ UNCHANGED <<engine, dataVars, healthy, skipped, died>>
        /\ Through(p) /\ there' = there \union (IF aborted[p] THEN {} ELSE held[p])
        /\ held' = [held EXCEPT ![p] = {}] /\ aborted' = [aborted EXCEPT ![p] = FALSE]
    BY <1>5, <1>h DEF Commits
  <2>2. there' \subseteq Everything
    BY <1>0, <2>1 DEF Hold
  <2>3. Hold(held') /\ Flags(aborted')
    BY <1>c, <1>d, <1>e, <2>1
  <2> QED
    BY <1>0, <1>a, <1>g, <2>1, <2>2, <2>3 DEF dataVars
<1>6. ASSUME NEW p \in Starters, Attaches(p) PROVE StartTyped'
  <2>1. /\ ~Down(p) /\ ~Serves(p) /\ Through(p) /\ orphans' = FALSE
        /\ UNCHANGED <<engine, there, token, secret, astray, holder, held, aborted, healthy, skipped, died>>
    BY <1>6, <1>h DEF Attaches
  <2>2. Data(orphans', token', secret', astray', holder')
    BY <1>0, <2>1 DEF Data
  <2> QED
    BY <1>0, <1>a, <1>g, <2>1, <2>2
<1>7. ASSUME NEW p \in Starters, Hashes(p) PROVE StartTyped'
  <2>1. /\ ~Down(p) /\ ~Serves(p)
        /\ UNCHANGED <<engine, there, orphans, secret, astray, holder, healthy, died>>
    BY <1>7, <1>h DEF Hashes
  <2>2. CASE Fails(p) /\ UNCHANGED token
    <3>1. Data(orphans', token', secret', astray', holder')
      BY <1>0, <2>1, <2>2 DEF Data
    <3> QED
      BY <1>0, <1>a, <1>f, <2>1, <2>2, <3>1
  <2>3. CASE token' = "hashed" /\ Through(p) /\ UNCHANGED <<held, aborted, skipped>>
    <3>1. Data(orphans', token', secret', astray', holder')
      BY <1>0, <2>1, <2>3 DEF Data
    <3> QED
      BY <1>0, <1>a, <1>g, <2>1, <2>3, <3>1
  <2> QED
    BY <1>7, <2>2, <2>3 DEF Hashes
<1>8. ASSUME NEW p \in Starters, Reencrypts(p) PROVE StartTyped'
  <2>1. /\ ~Down(p) /\ ~Serves(p)
        /\ UNCHANGED <<engine, there, orphans, token, astray, holder, healthy, died>>
    BY <1>8, <1>h DEF Reencrypts
  <2>2. CASE Fails(p) /\ UNCHANGED secret
    <3>1. Data(orphans', token', secret', astray', holder')
      BY <1>0, <2>1, <2>2 DEF Data
    <3> QED
      BY <1>0, <1>a, <1>f, <2>1, <2>2, <3>1
  <2>3. CASE secret' = "custom" /\ Through(p) /\ UNCHANGED <<held, aborted, skipped>>
    <3>1. Data(orphans', token', secret', astray', holder')
      BY <1>0, <2>1, <2>3 DEF Data
    <3> QED
      BY <1>0, <1>a, <1>g, <2>1, <2>3, <3>1
  <2> QED
    BY <1>8, <2>2, <2>3 DEF Reencrypts
<1>9. ASSUME NEW p \in Starters, FindsHealthy(p) PROVE StartTyped'
  <2>1. /\ ~Down(p) /\ ~Serves(p) /\ Through(p) /\ healthy' = [healthy EXCEPT ![p] = TRUE]
        /\ UNCHANGED <<engine, there, dataVars, held, aborted, skipped, died>>
    BY <1>9, <1>h DEF FindsHealthy
  <2>2. healthy' \in Flag
    BY <1>d, <1>e, <2>1
  <2> QED
    BY <1>0, <1>a, <1>g, <2>1, <2>2 DEF dataVars
<1>10. ASSUME NEW p \in Starters, EnsuresAdmin(p) PROVE StartTyped'
  <2>1. /\ ~Down(p) /\ ~Serves(p) /\ UNCHANGED <<engine, orphans, token, secret, healthy, died>>
    BY <1>10, <1>h DEF EnsuresAdmin
  <2>2. CASE Fails(p) /\ UNCHANGED <<there, astray, holder>>
    <3>1. Data(orphans', token', secret', astray', holder')
      BY <1>0, <2>1, <2>2 DEF Data
    <3> QED
      BY <1>0, <1>a, <1>f, <2>1, <2>2, <3>1
  <2>3. CASE /\ astray' = FALSE /\ holder' = IF astray THEN "none" ELSE holder
             /\ Through(p) /\ UNCHANGED <<there, held, aborted, skipped>>
    <3>1. Data(orphans', token', secret', astray', holder')
      BY <1>0, <2>1, <2>3 DEF Data
    <3> QED
      BY <1>0, <1>a, <1>g, <2>1, <2>3, <3>1
  <2>4. CASE /\ there' = there \union {Admin} /\ holder' = "none"
             /\ Through(p) /\ UNCHANGED <<astray, held, aborted, skipped>>
    <3>1. Data(orphans', token', secret', astray', holder')
      BY <1>0, <2>1, <2>4 DEF Data
    <3>2. there' \subseteq Everything
      BY <1>0, <2>4, ThingsKnown
    <3> QED
      BY <1>0, <1>a, <1>g, <2>1, <2>4, <3>1, <3>2
  <2> QED
    BY <1>10, <2>2, <2>3, <2>4 DEF EnsuresAdmin, MovesAdmin, MakesAdmin
<1>11. ASSUME NEW p \in Starters, Dies(p) PROVE StartTyped'
  <2>1. /\ died < MaxDeaths /\ died' = died + 1
        /\ line' = [line EXCEPT ![p] = 0] /\ seen' = [seen EXCEPT ![p] = {}]
        /\ held' = [held EXCEPT ![p] = {}] /\ aborted' = [aborted EXCEPT ![p] = FALSE]
        /\ UNCHANGED <<engine, there, dataVars, healthy, skipped>>
    BY <1>11 DEF Dies
  <2>2. WhereTyped'
    <3>1. \A q \in Starters : Script(q)' = Script(q) /\ Len(Script(q)) \in Nat
      BY <1>0, <2>1, ScriptOf DEF Script
    <3>2. \A q \in Starters : line'[q] \in 0 .. (Len(Script(q)) + 1)
      <4> SUFFICES ASSUME NEW q \in Starters PROVE line'[q] \in 0 .. (Len(Script(q)) + 1)
        OBVIOUS
      <4>1. CASE q = p
        <5>1. line'[q] = 0
          BY <1>0, <2>1, <4>1 DEF WhereTyped
        <5> QED
          BY <3>1, <5>1
      <4>2. CASE q # p
        BY <1>0, <2>1, <4>2 DEF WhereTyped
      <4> QED
        BY <4>1, <4>2
    <3>3. \A q \in Starters : seen'[q] \subseteq Found
      BY <1>0, <2>1 DEF WhereTyped
    <3> QED
      BY <1>0, <2>1, <3>1, <3>2, <3>3 DEF WhereTyped
  <2>3. Hold(held') /\ Flags(aborted')
    BY <1>c, <1>d, <1>e, <2>1
  <2>4. died' \in 0 .. MaxDeaths
    BY <1>0, <2>1, StartupAssumption
  <2> QED
    BY <1>0, <1>a, <2>1, <2>2, <2>3, <2>4 DEF dataVars
<1>12. CASE UNCHANGED startVars
  BY <1>0, <1>a, <1>b, <1>12 DEF startVars
<1> QED
  BY <1>1, <1>2, <1>3, <1>4, <1>5, <1>6, <1>7, <1>8, <1>9, <1>10, <1>11, <1>12 DEF StartNext, StartStep

\* What a release has left is of the types.
LEMMA StartInitTyped == StartInit => StartTyped
<1> SUFFICES ASSUME StartInit PROVE StartTyped
  OBVIOUS
<1>1. /\ engine \in Engines /\ astray \in BOOLEAN /\ holder \in {"none", "before", "after"} /\ died = 0
      /\ line = [p \in Starters |-> 0] /\ seen = [p \in Starters |-> {}]
      /\ held = [p \in Starters |-> {}] /\ aborted = [p \in Starters |-> FALSE]
      /\ healthy = [p \in Starters |-> FALSE] /\ skipped = [p \in Starters |-> FALSE]
  BY DEF StartInit
<1>2. there \subseteq Everything
  BY DEF StartInit, Release
<1>3. orphans \in BOOLEAN /\ token \in {"plain", "hashed"} /\ secret \in {"default", "custom"}
  BY DEF StartInit
<1>4. \A p \in Starters : 0 \in 0 .. (Len(Script(p)) + 1)
  BY <1>1, ScriptOf
<1>5. died \in 0 .. MaxDeaths
  BY <1>1, StartupAssumption
<1>6. StartTypeOK
  BY <1>1, <1>2, <1>3, <1>4, <1>5 DEF StartTypeOK
<1> QED
  BY <1>1, <1>6 DEF StartTyped

\* The types are invariant, on their own and of whatever engine.
LEMMA StartAlways == StartInit /\ [][StartNext]_startVars => []StartTyped
  BY StartInitTyped, StartStepTyped, PTL

\* Every variable of the start keeps its type: no process is at a statement its script does
\* not have, and nothing is in the database that this release does not know.
THEOREM StartTypeCorrect == StartSpec => []StartTypeOK
<1>1. StartTyped => StartTypeOK
  BY DEF StartTyped
<1> QED
  BY <1>1, StartAlways, PTL DEF StartSpec

-----------------------------------------------------------------------------
(* What a start brings.                                                    *)

\* A statement, and the whole of what the API does, of which the scheduler does the first part.
Deed(do, share, on) == [do |-> do, part |-> share, on |-> on]
FullStart == Lifespan[engine]

Sqlite == engine = "sqlite"
Postgres == engine = "postgresql"

\* Where in the whole the tokens are hashed, the last index is added and the market data is
\* found healthy.
HashAt == IF Sqlite THEN 19 ELSE 12
IndexAt == IF Sqlite THEN 25 ELSE 17
HealthyAt == IF Sqlite THEN 29 ELSE 24

\* Two lists one after the other.
LEMMA Joined ==
    ASSUME NEW s \in Seq(Sound), NEW t \in Seq(Sound)
    PROVE  /\ s \o t \in Seq(Sound) /\ Len(s \o t) = Len(s) + Len(t)
           /\ \A k \in 1 .. Len(s) : (s \o t)[k] = s[k]
           /\ \A k \in 1 .. Len(t) : (s \o t)[Len(s) + k] = t[k]
<1> DEFINE both == s \o t
           n == Len(s)
           m == Len(t)
<1>1. /\ both \in Seq(Sound) /\ Len(both) = n + m /\ n \in Nat /\ m \in Nat
      /\ \A i \in 1 .. n + m : both[i] = IF i <= n THEN s[i] ELSE t[i - n]
  BY ConcatProperties
<1> HIDE DEF both, n, m
<1>2. \A k \in 1 .. n : both[k] = s[k]
  BY <1>1
<1>3. \A k \in 1 .. m : both[n + k] = t[k]
  <2> SUFFICES ASSUME NEW k \in 1 .. m PROVE both[n + k] = t[k]
    OBVIOUS
  <2>1. n + k \in 1 .. n + m /\ ~(n + k <= n) /\ (n + k) - n = k
    BY <1>1
  <2> QED
    BY <1>1, <2>1
<1> QED
  BY <1>1, <1>2, <1>3 DEF both, n, m

\* A list with one before it.
LEMMA Preceded ==
    ASSUME NEW x \in Sound, NEW t \in Seq(Sound), NEW n \in Nat, Len(t) = n
    PROVE  /\ Len(<<x>> \o t) = n + 1 /\ (<<x>> \o t)[1] = x
           /\ \A k \in 1 .. n : (<<x>> \o t)[k + 1] = t[k]
<1> DEFINE both == <<x>> \o t
<1>1. <<x>> \in Seq(Sound) /\ Len(<<x>>) = 1 /\ <<x>>[1] = x
  OBVIOUS
<1>2. /\ Len(both) = 1 + n
      /\ \A i \in 1 .. 1 + n : both[i] = IF i <= 1 THEN <<x>>[i] ELSE t[i - 1]
  BY <1>1, ConcatProperties
<1> HIDE DEF both
<1>3. both[1] = x
  BY <1>1, <1>2
<1>4. \A k \in 1 .. n : both[k + 1] = t[k]
  <2> SUFFICES ASSUME NEW k \in 1 .. n PROVE both[k + 1] = t[k]
    OBVIOUS
  <2>1. k + 1 \in 1 .. 1 + n /\ ~(k + 1 <= 1) /\ (k + 1) - 1 = k
    OBVIOUS
  <2> QED
    BY <1>2, <2>1
<1> QED
  BY <1>2, <1>3, <1>4 DEF both

\* Statement for statement what a list becomes,
LEMMA ListSpelled ==
    ASSUME NEW n \in Nat, NEW things, DOMAIN things = 1 .. n, NEW share, NEW do
    PROVE  /\ Len(Statements(do, share, things)) = n
           /\ \A k \in 1 .. n : Statements(do, share, things)[k] = Deed(do, share, things[k])
<1>1. Statements(do, share, things) = [k \in 1 .. n |-> Deed(do, share, things[k])]
  BY DEF Statements, Deed
<1>2. Len(Statements(do, share, things)) = n
  <2> HIDE DEF Deed
  <2> QED
    BY <1>1
<1> QED
  BY <1>1, <1>2

\* with the look before,
LEMMA AddSpelled ==
    ASSUME NEW n \in Nat \ {0}, NEW things \in Seq(Loose), Len(things) = n, NEW share \in StartParts
    PROVE  /\ Len(Add(share, things)) = n + 1
           /\ Add(share, things)[1] = Deed("look", share, things[1])
           /\ \A k \in 1 .. n : Add(share, things)[k + 1] = Deed("add", share, things[k])
<1>1. /\ Len(Statements("add", share, things)) = n
      /\ \A k \in 1 .. n : Statements("add", share, things)[k] = Deed("add", share, things[k])
  BY ListSpelled
<1>2. Len(things) = n /\ Head(things) = things[1]
  BY <1>1
<1>3. Statements("add", share, things) \in Seq(Sound)
  BY AddsSound
<1>4. Deed("look", share, Head(things)) \in Sound
  <2>1. Head(things) \in Everything
    BY <1>2 DEF Loose
  <2> QED
    BY <2>1 DEF Sound, Deeds, Deed
<1> DEFINE adds == Statements("add", share, things)
           first == Deed("look", share, Head(things))
<1>5. Add(share, things) = <<first>> \o adds
  BY DEF Add, Deed
<1>6. first \in Sound /\ adds \in Seq(Sound) /\ Len(adds) = n /\ n \in Nat
  BY <1>1, <1>3, <1>4
<1>7. first = Deed("look", share, things[1]) /\ \A k \in 1 .. n : adds[k] = Deed("add", share, things[k])
  BY <1>1, <1>2
<1> HIDE DEF adds, first
<1>8. /\ Len(<<first>> \o adds) = n + 1 /\ (<<first>> \o adds)[1] = first
      /\ \A k \in 1 .. n : (<<first>> \o adds)[k + 1] = adds[k]
  BY <1>6, Preceded
<1> QED
  BY <1>5, <1>7, <1>8

\* and one on its own.
LEMMA OneSpelled ==
    ASSUME NEW do, NEW share
    PROVE  Len(One(do, share)) = 1 /\ One(do, share)[1] = Deed(do, share, Admin)
BY DEF One, Statements, Deed

\* How long the lists are.
LEMMA ListLengths ==
    /\ Len(Tables) = 4 /\ Len(ReportColumns) = 2 /\ Len(ReportIndexes) = 1 /\ Len(LoginColumns) = 1
    /\ Len(LlmColumns) = 1 /\ Len(AccountColumns) = 1 /\ Len(TokenColumns) = 1 /\ Len(IndexedTables) = 2
    /\ Len(MarketTables) = 1 /\ Len(FactorColumns) = 1
    /\ DOMAIN ReportIndexes = 1 .. 1 /\ DOMAIN AccountColumns = 1 .. 1 /\ DOMAIN IndexedTables = 1 .. 2
BY DEF Tables, ReportColumns, ReportIndexes, LoginColumns, LlmColumns, AccountColumns, TokenColumns, IndexedTables,
       MarketTables, FactorColumns, Things

\* The statements of each part: what adds one thing of a kind,
LEMMA AddOfOne ==
    ASSUME NEW things \in Seq(Loose), Len(things) = 1, NEW share \in StartParts
    PROVE  /\ Add(share, things) \in Seq(Sound) /\ Len(Add(share, things)) = 2
           /\ Add(share, things)[1] = Deed("look", share, things[1])
           /\ Add(share, things)[2] = Deed("add", share, things[1])
<1>1. PICK one \in Nat \ {0} : one = 1
  OBVIOUS
<1>2. /\ Len(Add(share, things)) = one + 1
      /\ Add(share, things)[1] = Deed("look", share, things[1])
      /\ \A k \in 1 .. one : Add(share, things)[k + 1] = Deed("add", share, things[k])
  BY <1>1, AddSpelled
<1>3. Add(share, things) \in Seq(Sound)
  BY LooksSound
<1> QED
  BY <1>1, <1>2, <1>3

\* the tables and the columns of the reports,
LEMMA FirstParts ==
    ASSUME NEW e
    PROVE  /\ Len(CreateAll(e)) = 6 /\ CreateAll(e)[1] = Deed("look", "tables", Tables[1])
           /\ \A k \in 1 .. 4 : CreateAll(e)[k + 1] = Deed("add", "tables", Tables[k])
           /\ CreateAll(e)[6] = Deed("commit", "tables", Admin)
           /\ Len(ReportPart(e)) = 5 /\ ReportPart(e)[1] = Deed("look", "reports", ReportColumns[1])
           /\ ReportPart(e)[2] = Deed("add", "reports", ReportColumns[1])
           /\ ReportPart(e)[3] = Deed("add", "reports", ReportColumns[2])
           /\ ReportPart(e)[4] = Deed("index", "reports", ReportIndexes[1])
           /\ ReportPart(e)[5] = Deed("commit", "reports", Admin)
<1>0. "tables" \in StartParts /\ "reports" \in StartParts /\ "commit" \in Deeds /\ "index" \in Deeds
  BY DEF StartParts, Deeds
<1>1. PICK one \in Nat \ {0} : one = 1
  OBVIOUS
<1>2. PICK two \in Nat \ {0} : two = 2
  OBVIOUS
<1>3. PICK four \in Nat \ {0} : four = 4
  OBVIOUS
<1>4. PICK five \in Nat : five = 5
  OBVIOUS
<1>t. PICK three \in Nat : three = 3
  OBVIOUS
<1>5. /\ Add("tables", Tables) \in Seq(Sound) /\ Len(Add("tables", Tables)) = five
      /\ Add("tables", Tables)[1] = Deed("look", "tables", Tables[1])
      /\ \A k \in 1 .. 4 : Add("tables", Tables)[k + 1] = Deed("add", "tables", Tables[k])
  <2>1. Tables \in Seq(Loose) /\ Len(Tables) = four /\ Tables # <<>>
    BY <1>3, Lists, ListLengths
  <2>2. /\ Len(Add("tables", Tables)) = four + 1
        /\ Add("tables", Tables)[1] = Deed("look", "tables", Tables[1])
        /\ \A k \in 1 .. four : Add("tables", Tables)[k + 1] = Deed("add", "tables", Tables[k])
    BY <1>0, <2>1, AddSpelled
  <2> QED
    BY <1>0, <1>3, <1>4, <2>1, <2>2, LooksSound
<1>6. /\ Add("reports", ReportColumns) \in Seq(Sound) /\ Len(Add("reports", ReportColumns)) = three
      /\ Add("reports", ReportColumns)[1] = Deed("look", "reports", ReportColumns[1])
      /\ Add("reports", ReportColumns)[2] = Deed("add", "reports", ReportColumns[1])
      /\ Add("reports", ReportColumns)[3] = Deed("add", "reports", ReportColumns[2])
  <2>1. ReportColumns \in Seq(Loose) /\ Len(ReportColumns) = two /\ ReportColumns # <<>>
    BY <1>2, Lists, ListLengths
  <2>2. /\ Len(Add("reports", ReportColumns)) = two + 1
        /\ Add("reports", ReportColumns)[1] = Deed("look", "reports", ReportColumns[1])
        /\ \A k \in 1 .. two : Add("reports", ReportColumns)[k + 1] = Deed("add", "reports", ReportColumns[k])
    BY <1>0, <2>1, AddSpelled
  <2>3. 1 \in 1 .. two /\ 2 \in 1 .. two /\ 1 + 1 = 2 /\ 2 + 1 = 3
    BY <1>2
  <2> QED
    BY <1>0, <1>2, <1>t, <2>1, <2>2, <2>3, LooksSound
<1>7. /\ \A share \in StartParts, do \in Deeds : One(do, share) \in Seq(Sound) /\ Len(One(do, share)) = one
                                                 /\ One(do, share)[1] = Deed(do, share, Admin)
  BY <1>1, OneSound, OneSpelled
<1>8. /\ Statements("index", "reports", ReportIndexes) \in Seq(Sound)
      /\ Len(Statements("index", "reports", ReportIndexes)) = one
      /\ Statements("index", "reports", ReportIndexes)[1] = Deed("index", "reports", ReportIndexes[1])
  <2>1. DOMAIN ReportIndexes = 1 .. one /\ ReportIndexes \in Seq(Everything)
    BY <1>1, ListLengths, Lists
  <2>2. /\ Len(Statements("index", "reports", ReportIndexes)) = one
        /\ \A k \in 1 .. one : Statements("index", "reports", ReportIndexes)[k] = Deed("index", "reports", ReportIndexes[k])
    BY <2>1, ListSpelled
  <2> QED
    BY <1>0, <1>1, <2>1, <2>2, OthersSound
<1>9. /\ Len(CreateAll(e)) = 6 /\ CreateAll(e)[1] = Deed("look", "tables", Tables[1])
      /\ \A k \in 1 .. 4 : CreateAll(e)[k + 1] = Deed("add", "tables", Tables[k])
      /\ CreateAll(e)[6] = Deed("commit", "tables", Admin)
  <2> DEFINE s == Add("tables", Tables)
             t == One("commit", "tables")
  <2>1. s \in Seq(Sound) /\ t \in Seq(Sound) /\ Len(s) = five /\ Len(t) = one /\ one \in Nat
    BY <1>0, <1>5, <1>7
  <2> HIDE DEF s, t
  <2>2. /\ Len(s \o t) = five + one /\ \A k \in 1 .. five : (s \o t)[k] = s[k]
        /\ \A k \in 1 .. one : (s \o t)[five + k] = t[k]
    BY <2>1, Joined
  <2>3. /\ CreateAll(e) = s \o t
    BY DEF CreateAll, s, t
  <2>4. /\ s[1] = Deed("look", "tables", Tables[1])
        /\ \A k \in 1 .. 4 : s[k + 1] = Deed("add", "tables", Tables[k])
        /\ t[1] = Deed("commit", "tables", Admin)
    BY <1>0, <1>5, <1>7 DEF s, t
  <2>5. Len(CreateAll(e)) = 6 /\ \A k \in 1 .. 5 : CreateAll(e)[k] = s[k]
    BY <1>1, <1>4, <2>2, <2>3
  <2>6. CreateAll(e)[6] = t[1]
    BY <1>1, <1>4, <2>2, <2>3
  <2> QED
    BY <2>4, <2>5, <2>6
<1>10. /\ Len(ReportPart(e)) = 5
       /\ \A k \in 1 .. 3 : ReportPart(e)[k] = Add("reports", ReportColumns)[k]
       /\ ReportPart(e)[4] = Deed("index", "reports", ReportIndexes[1])
       /\ ReportPart(e)[5] = Deed("commit", "reports", Admin)
  <2> DEFINE s == Add("reports", ReportColumns)
             t == Statements("index", "reports", ReportIndexes)
             u == One("commit", "reports")
  <2>1. /\ s \in Seq(Sound) /\ t \in Seq(Sound) /\ u \in Seq(Sound) /\ Len(s) = three /\ Len(t) = one /\ Len(u) = one
        /\ one \in Nat
    BY <1>0, <1>6, <1>7, <1>8
  <2>2. t[1] = Deed("index", "reports", ReportIndexes[1]) /\ u[1] = Deed("commit", "reports", Admin)
    BY <1>0, <1>7, <1>8
  <2>3. ReportPart(e) = (s \o t) \o u
    BY DEF ReportPart
  <2> HIDE DEF s, t, u
  <2> DEFINE st == s \o t
  <2>4. /\ st \in Seq(Sound) /\ Len(st) = Len(s) + Len(t) /\ \A k \in 1 .. Len(s) : st[k] = s[k]
        /\ \A k \in 1 .. Len(t) : st[Len(s) + k] = t[k]
    BY <2>1, Joined
  <2>5. ReportPart(e) = st \o u
    BY <2>3
  <2> HIDE DEF st
  <2>6. /\ Len(st \o u) = Len(st) + Len(u) /\ \A k \in 1 .. Len(st) : (st \o u)[k] = st[k]
        /\ \A k \in 1 .. Len(u) : (st \o u)[Len(st) + k] = u[k]
    BY <2>1, <2>4, Joined
  <2>7. Len(s) = 3 /\ Len(t) = 1 /\ Len(u) = 1 /\ Len(st) = 4
    BY <1>1, <1>t, <2>1, <2>4
  <2>8. /\ Len(ReportPart(e)) = 5 /\ \A k \in 1 .. 4 : ReportPart(e)[k] = st[k]
        /\ ReportPart(e)[5] = u[1]
    BY <2>5, <2>6, <2>7
  <2>9. st[4] = t[1] /\ \A k \in 1 .. 3 : st[k] = s[k]
    BY <2>4, <2>7
  <2>10. \A k \in 1 .. 3 : ReportPart(e)[k] = s[k]
    BY <2>8, <2>9
  <2> QED
    BY <2>2, <2>8, <2>9, <2>10 DEF s
<1> QED
  BY <1>6, <1>9, <1>10

\* Short lists one after the other.
LEMMA ShortLists ==
    ASSUME NEW s \in Seq(Sound), NEW t \in Seq(Sound)
    PROVE  /\ Len(s) = 2 /\ Len(t) = 1 =>
                 /\ s \o t \in Seq(Sound) /\ Len(s \o t) = 3
                 /\ (s \o t)[1] = s[1] /\ (s \o t)[2] = s[2] /\ (s \o t)[3] = t[1]
           /\ Len(s) = 2 /\ Len(t) = 2 =>
                 /\ s \o t \in Seq(Sound) /\ Len(s \o t) = 4
                 /\ (s \o t)[1] = s[1] /\ (s \o t)[2] = s[2] /\ (s \o t)[3] = t[1] /\ (s \o t)[4] = t[2]
           /\ Len(s) = 3 /\ Len(t) = 1 =>
                 /\ s \o t \in Seq(Sound) /\ Len(s \o t) = 4
                 /\ (s \o t)[1] = s[1] /\ (s \o t)[2] = s[2] /\ (s \o t)[3] = s[3] /\ (s \o t)[4] = t[1]
           /\ Len(s) = 3 /\ Len(t) = 3 =>
                 /\ s \o t \in Seq(Sound) /\ Len(s \o t) = 6
                 /\ (s \o t)[1] = s[1] /\ (s \o t)[2] = s[2] /\ (s \o t)[3] = s[3] /\ (s \o t)[4] = t[1]
                 /\ (s \o t)[5] = t[2] /\ (s \o t)[6] = t[3]
           /\ Len(s) = 4 /\ Len(t) = 1 =>
                 /\ s \o t \in Seq(Sound) /\ Len(s \o t) = 5
                 /\ (s \o t)[1] = s[1] /\ (s \o t)[2] = s[2] /\ (s \o t)[3] = s[3] /\ (s \o t)[4] = s[4]
                 /\ (s \o t)[5] = t[1]
           /\ Len(s) = 6 /\ Len(t) = 1 =>
                 /\ s \o t \in Seq(Sound) /\ Len(s \o t) = 7
                 /\ (s \o t)[1] = s[1] /\ (s \o t)[2] = s[2] /\ (s \o t)[3] = s[3] /\ (s \o t)[4] = s[4]
                 /\ (s \o t)[5] = s[5] /\ (s \o t)[6] = s[6] /\ (s \o t)[7] = t[1]
           /\ Len(s) = 1 /\ Len(t) = 1 =>
                 /\ s \o t \in Seq(Sound) /\ Len(s \o t) = 2
                 /\ (s \o t)[1] = s[1] /\ (s \o t)[2] = t[1]
<1> DEFINE both == s \o t
<1>1. /\ both \in Seq(Sound) /\ Len(both) = Len(s) + Len(t)
      /\ \A k \in 1 .. Len(s) : both[k] = s[k]
      /\ \A k \in 1 .. Len(t) : both[Len(s) + k] = t[k]
  BY Joined
<1> HIDE DEF both
<1>2. /\ Len(s) = 2 /\ Len(t) = 1 =>
           both \in Seq(Sound) /\ Len(both) = 3 /\ both[1] = s[1] /\ both[2] = s[2] /\ both[3] = t[1]
  BY <1>1
<1>3. /\ Len(s) = 2 /\ Len(t) = 2 =>
           /\ both \in Seq(Sound) /\ Len(both) = 4
           /\ both[1] = s[1] /\ both[2] = s[2] /\ both[3] = t[1] /\ both[4] = t[2]
  BY <1>1
<1>4. /\ Len(s) = 3 /\ Len(t) = 1 =>
           /\ both \in Seq(Sound) /\ Len(both) = 4
           /\ both[1] = s[1] /\ both[2] = s[2] /\ both[3] = s[3] /\ both[4] = t[1]
  <2> SUFFICES ASSUME Len(s) = 3, Len(t) = 1
               PROVE  Len(both) = 4 /\ both[1] = s[1] /\ both[2] = s[2] /\ both[3] = s[3] /\ both[4] = t[1]
    BY <1>1
  <2>1. both[1] = s[1] /\ both[2] = s[2] /\ both[3] = s[3] /\ Len(both) = 4
    BY <1>1
  <2>2. both[3 + 1] = t[1]
    BY <1>1
  <2> QED
    BY <2>1, <2>2
<1>5. /\ Len(s) = 3 /\ Len(t) = 3 =>
           /\ both \in Seq(Sound) /\ Len(both) = 6
           /\ both[1] = s[1] /\ both[2] = s[2] /\ both[3] = s[3] /\ both[4] = t[1] /\ both[5] = t[2] /\ both[6] = t[3]
  <2> SUFFICES ASSUME Len(s) = 3, Len(t) = 3
               PROVE  /\ Len(both) = 6 /\ both[1] = s[1] /\ both[2] = s[2] /\ both[3] = s[3]
                      /\ both[4] = t[1] /\ both[5] = t[2] /\ both[6] = t[3]
    BY <1>1
  <2>1. both[1] = s[1] /\ both[2] = s[2] /\ both[3] = s[3] /\ Len(both) = 6
    BY <1>1
  <2>2. both[3 + 1] = t[1] /\ both[3 + 2] = t[2] /\ both[3 + 3] = t[3]
    BY <1>1
  <2> QED
    BY <2>1, <2>2
<1>6. /\ Len(s) = 4 /\ Len(t) = 1 =>
           /\ both \in Seq(Sound) /\ Len(both) = 5
           /\ both[1] = s[1] /\ both[2] = s[2] /\ both[3] = s[3] /\ both[4] = s[4] /\ both[5] = t[1]
  <2> SUFFICES ASSUME Len(s) = 4, Len(t) = 1
               PROVE  /\ Len(both) = 5 /\ both[1] = s[1] /\ both[2] = s[2] /\ both[3] = s[3]
                      /\ both[4] = s[4] /\ both[5] = t[1]
    BY <1>1
  <2>1. both[1] = s[1] /\ both[2] = s[2] /\ Len(both) = 5
    BY <1>1
  <2>2. both[3] = s[3] /\ both[4] = s[4]
    BY <1>1
  <2>3. both[4 + 1] = t[1]
    BY <1>1
  <2> QED
    BY <2>1, <2>2, <2>3
<1>7. /\ Len(s) = 6 /\ Len(t) = 1 =>
           /\ both \in Seq(Sound) /\ Len(both) = 7
           /\ both[1] = s[1] /\ both[2] = s[2] /\ both[3] = s[3] /\ both[4] = s[4] /\ both[5] = s[5] /\ both[6] = s[6]
           /\ both[7] = t[1]
  <2> SUFFICES ASSUME Len(s) = 6, Len(t) = 1
               PROVE  /\ Len(both) = 7 /\ both[1] = s[1] /\ both[2] = s[2] /\ both[3] = s[3]
                      /\ both[4] = s[4] /\ both[5] = s[5] /\ both[6] = s[6] /\ both[7] = t[1]
    BY <1>1
  <2>1. both[1] = s[1] /\ both[2] = s[2] /\ both[3] = s[3] /\ Len(both) = 7
    BY <1>1
  <2>2. both[4] = s[4] /\ both[5] = s[5] /\ both[6] = s[6]
    BY <1>1
  <2>3. both[6 + 1] = t[1]
    BY <1>1
  <2> QED
    BY <2>1, <2>2, <2>3
<1>8. /\ Len(s) = 1 /\ Len(t) = 1 =>
           both \in Seq(Sound) /\ Len(both) = 2 /\ both[1] = s[1] /\ both[2] = t[1]
  BY <1>1
<1> QED
  BY <1>2, <1>3, <1>4, <1>5, <1>6, <1>7, <1>8 DEF both

\* the users, the tokens and the keys,
LEMMA UserParts ==
    ASSUME NEW e
    PROVE  /\ e = "sqlite" =>
                /\ Len(UserPart(e)) = 5
                /\ UserPart(e)[1] = Deed("look", "users", LoginColumns[1])
                /\ UserPart(e)[2] = Deed("add", "users", LoginColumns[1])
                /\ UserPart(e)[3] = Deed("look", "users", LlmColumns[1])
                /\ UserPart(e)[4] = Deed("add", "users", LlmColumns[1])
                /\ UserPart(e)[5] = Deed("add", "users", AccountColumns[1])
                /\ Len(TokenPart(e)) = 3
                /\ TokenPart(e)[1] = Deed("look", "tokens", TokenColumns[1])
                /\ TokenPart(e)[2] = Deed("add", "tokens", TokenColumns[1])
                /\ TokenPart(e)[3] = Deed("hash", "tokens", Admin)
           /\ e # "sqlite" =>
                /\ Len(UserPart(e)) = 0 /\ Len(TokenPart(e)) = 1
                /\ TokenPart(e)[1] = Deed("hash", "tokens", Admin)
           /\ Len(KeyPart(e)) = 1 /\ KeyPart(e)[1] = Deed("reencrypt", "keys", Admin)
<1>0. "users" \in StartParts /\ "tokens" \in StartParts /\ "hash" \in Deeds
  BY DEF StartParts, Deeds
<1> DEFINE a == Add("users", LoginColumns)
           b == Add("users", LlmColumns)
           c == Statements("add", "users", AccountColumns)
           d == Add("tokens", TokenColumns)
           h == One("hash", "tokens")
<1>1. /\ a \in Seq(Sound) /\ Len(a) = 2 /\ a[1] = Deed("look", "users", LoginColumns[1])
      /\ a[2] = Deed("add", "users", LoginColumns[1])
      /\ b \in Seq(Sound) /\ Len(b) = 2 /\ b[1] = Deed("look", "users", LlmColumns[1])
      /\ b[2] = Deed("add", "users", LlmColumns[1])
      /\ d \in Seq(Sound) /\ Len(d) = 2 /\ d[1] = Deed("look", "tokens", TokenColumns[1])
      /\ d[2] = Deed("add", "tokens", TokenColumns[1])
  BY <1>0, Lists, ListLengths, AddOfOne
<1>2. c \in Seq(Sound) /\ Len(c) = 1 /\ c[1] = Deed("add", "users", AccountColumns[1])
  <2>1. PICK one \in Nat : one = 1
    OBVIOUS
  <2>2. DOMAIN AccountColumns = 1 .. one /\ AccountColumns \in Seq(Loose)
    BY <2>1, ListLengths, Lists
  <2>3. /\ Len(c) = one
        /\ \A k \in 1 .. one : c[k] = Deed("add", "users", AccountColumns[k])
    BY <2>2, ListSpelled
  <2> QED
    BY <1>0, <2>1, <2>2, <2>3, AddsSound
<1>3. h \in Seq(Sound) /\ Len(h) = 1 /\ h[1] = Deed("hash", "tokens", Admin)
  BY <1>0, OneSound, OneSpelled
<1>4. e = "sqlite" => UserPart(e) = (a \o b) \o c /\ TokenPart(e) = d \o h
  BY DEF UserPart, TokenPart
<1>5. e # "sqlite" => UserPart(e) = <<>> /\ TokenPart(e) = <<>> \o h
  BY DEF UserPart, TokenPart
<1>6. Len(KeyPart(e)) = 1 /\ KeyPart(e)[1] = Deed("reencrypt", "keys", Admin)
  BY OneSpelled DEF KeyPart
<1> HIDE DEF a, b, c, d, h
<1>7. /\ a \o b \in Seq(Sound) /\ Len(a \o b) = 4 /\ (a \o b)[1] = a[1] /\ (a \o b)[2] = a[2]
      /\ (a \o b)[3] = b[1] /\ (a \o b)[4] = b[2]
  BY <1>1, ShortLists
<1>8. /\ Len((a \o b) \o c) = 5 /\ ((a \o b) \o c)[1] = a[1] /\ ((a \o b) \o c)[2] = a[2]
      /\ ((a \o b) \o c)[3] = b[1] /\ ((a \o b) \o c)[4] = b[2] /\ ((a \o b) \o c)[5] = c[1]
  <2> DEFINE ab == a \o b
  <2> HIDE DEF ab
  <2>1. /\ Len(ab \o c) = 5 /\ (ab \o c)[1] = ab[1] /\ (ab \o c)[2] = ab[2]
        /\ (ab \o c)[3] = ab[3] /\ (ab \o c)[4] = ab[4] /\ (ab \o c)[5] = c[1]
    <3>1. ab \in Seq(Sound) /\ Len(ab) = 4
      BY <1>7 DEF ab
    <3> QED
      BY <1>2, <3>1, ShortLists
  <2> QED
    BY <1>7, <2>1 DEF ab
<1>9. Len(d \o h) = 3 /\ (d \o h)[1] = d[1] /\ (d \o h)[2] = d[2] /\ (d \o h)[3] = h[1]
  BY <1>1, <1>3, ShortLists
<1>10. <<>> \o h = h
  BY <1>3, ConcatEmptySeq
<1> QED
  BY <1>1, <1>2, <1>3, <1>4, <1>5, <1>6, <1>8, <1>9, <1>10

\* the placeholder user and the indexes,
LEMMA MiddleParts ==
    ASSUME NEW e
    PROVE  /\ Len(LegacyPart(e)) = 3
           /\ LegacyPart(e)[1] = Deed("look", "legacy", Legacy)
           /\ LegacyPart(e)[2] = Deed("add", "legacy", Legacy)
           /\ LegacyPart(e)[3] = Deed("attach", "legacy", Admin)
           /\ e = "sqlite" =>
                /\ Len(IndexParts(e)) = 2
                /\ IndexParts(e)[1] = Deed("index", "indexes", IndexedTables[1])
                /\ IndexParts(e)[2] = Deed("index", "indexes", IndexedTables[2])
           /\ e # "sqlite" =>
                /\ Len(IndexParts(e)) = 1
                /\ IndexParts(e)[1] = Deed("index", "indexes", IndexedTables[2])
<1>0. "legacy" \in StartParts /\ "attach" \in Deeds
  BY DEF StartParts, Deeds
<1> DEFINE a == Add("legacy", <<Legacy>>)
           b == One("attach", "legacy")
<1>1. /\ a \in Seq(Sound) /\ Len(a) = 2 /\ a[1] = Deed("look", "legacy", Legacy)
      /\ a[2] = Deed("add", "legacy", Legacy)
  <2>1. <<Legacy>> \in Seq(Loose) /\ Len(<<Legacy>>) = 1 /\ <<Legacy>>[1] = Legacy
    BY RowsLoose
  <2> QED
    BY <1>0, <2>1, AddOfOne
<1>2. b \in Seq(Sound) /\ Len(b) = 1 /\ b[1] = Deed("attach", "legacy", Admin)
  BY <1>0, OneSound, OneSpelled
<1>3. LegacyPart(e) = a \o b
  BY DEF LegacyPart
<1> HIDE DEF a, b
<1>4. Len(a \o b) = 3 /\ (a \o b)[1] = a[1] /\ (a \o b)[2] = a[2] /\ (a \o b)[3] = b[1]
  BY <1>1, <1>2, ShortLists
<1>5. PICK one \in Nat : one = 1
  OBVIOUS
<1>6. PICK two \in Nat : two = 2
  OBVIOUS
<1>7. CASE e = "sqlite"
  <2>1. IndexParts(e) = Statements("index", "indexes", IndexedTables)
    BY <1>7 DEF IndexParts
  <2>2. DOMAIN IndexedTables = 1 .. two
    BY <1>6, ListLengths
  <2>3. /\ Len(IndexParts(e)) = two
        /\ \A k \in 1 .. two : IndexParts(e)[k] = Deed("index", "indexes", IndexedTables[k])
    BY <2>1, <2>2, ListSpelled
  <2> QED
    BY <1>1, <1>2, <1>3, <1>4, <1>6, <1>7, <2>3
<1>8. CASE e # "sqlite"
  <2>1. IndexParts(e) = Statements("index", "indexes", Tail(IndexedTables))
    BY <1>8 DEF IndexParts
  <2>2. DOMAIN Tail(IndexedTables) = 1 .. one /\ Tail(IndexedTables)[1] = IndexedTables[2]
    <3> DEFINE t == Tail(IndexedTables)
    <3>1. IndexedTables \in Seq(Everything) /\ IndexedTables # <<>> /\ Len(IndexedTables) = 2
      BY Lists, ListLengths
    <3>2. /\ t \in Seq(Everything) /\ Len(t) = Len(IndexedTables) - 1
          /\ \A k \in 1 .. Len(t) : t[k] = IndexedTables[k + 1]
      BY <3>1, HeadTailProperties
    <3> HIDE DEF t
    <3>3. Len(t) = 1 /\ DOMAIN t = 1 .. Len(t)
      BY <3>1, <3>2
    <3>4. t[1] = IndexedTables[1 + 1]
      BY <3>2, <3>3
    <3>5. DOMAIN t = 1 .. one /\ t[1] = IndexedTables[2]
      BY <1>5, <3>3, <3>4
    <3> QED
      BY <3>5 DEF t
  <2>a. \A t : DOMAIN t = 1 .. one =>
           /\ Len(Statements("index", "indexes", t)) = one
           /\ \A k \in 1 .. one : Statements("index", "indexes", t)[k] = Deed("index", "indexes", t[k])
    BY ListSpelled
  <2>3. /\ Len(IndexParts(e)) = one
        /\ \A k \in 1 .. one : IndexParts(e)[k] = Deed("index", "indexes", Tail(IndexedTables)[k])
    BY <2>1, <2>2, <2>a
  <2> QED
    BY <1>1, <1>2, <1>3, <1>4, <1>5, <1>8, <2>2, <2>3
<1> QED
  BY <1>7, <1>8

\* the market data,
LEMMA MarketParts ==
    ASSUME NEW e
    PROVE  /\ e = "sqlite" =>
                /\ Len(MarketPart(e)) = 4
                /\ MarketPart(e)[1] = Deed("look", "market", MarketTables[1])
                /\ MarketPart(e)[2] = Deed("add", "market", MarketTables[1])
                /\ MarketPart(e)[3] = Deed("commit", "market", Admin)
                /\ MarketPart(e)[4] = Deed("healthy", "market", Admin)
           /\ e # "sqlite" =>
                /\ Len(MarketPart(e)) = 7
                /\ MarketPart(e)[1] = Deed("look", "market", MarketTables[1])
                /\ MarketPart(e)[2] = Deed("add", "market", MarketTables[1])
                /\ MarketPart(e)[3] = Deed("commit", "market", Admin)
                /\ MarketPart(e)[4] = Deed("look", "factor", FactorColumns[1])
                /\ MarketPart(e)[5] = Deed("add", "factor", FactorColumns[1])
                /\ MarketPart(e)[6] = Deed("commit", "factor", Admin)
                /\ MarketPart(e)[7] = Deed("healthy", "market", Admin)
<1>0. "market" \in StartParts /\ "factor" \in StartParts /\ "commit" \in Deeds /\ "healthy" \in Deeds
  BY DEF StartParts, Deeds
<1> DEFINE a == Add("market", MarketTables)
           b == One("commit", "market")
           c == Add("factor", FactorColumns)
           d == One("commit", "factor")
           h == One("healthy", "market")
<1>1. /\ a \in Seq(Sound) /\ Len(a) = 2 /\ a[1] = Deed("look", "market", MarketTables[1])
      /\ a[2] = Deed("add", "market", MarketTables[1])
      /\ c \in Seq(Sound) /\ Len(c) = 2 /\ c[1] = Deed("look", "factor", FactorColumns[1])
      /\ c[2] = Deed("add", "factor", FactorColumns[1])
  BY <1>0, Lists, ListLengths, AddOfOne
<1>2. /\ b \in Seq(Sound) /\ Len(b) = 1 /\ b[1] = Deed("commit", "market", Admin)
      /\ d \in Seq(Sound) /\ Len(d) = 1 /\ d[1] = Deed("commit", "factor", Admin)
      /\ h \in Seq(Sound) /\ Len(h) = 1 /\ h[1] = Deed("healthy", "market", Admin)
  BY <1>0, OneSound, OneSpelled
<1>3. MarketPart(e) = ((a \o b) \o (IF e = "sqlite" THEN <<>> ELSE c \o d)) \o h
  BY DEF MarketPart
<1> HIDE DEF a, b, c, d, h
<1> DEFINE ab == a \o b
           cd == c \o d
<1>4. /\ ab \in Seq(Sound) /\ Len(ab) = 3 /\ ab[1] = a[1] /\ ab[2] = a[2] /\ ab[3] = b[1]
  BY <1>1, <1>2, ShortLists
<1>5. /\ cd \in Seq(Sound) /\ Len(cd) = 3 /\ cd[1] = c[1] /\ cd[2] = c[2] /\ cd[3] = d[1]
  BY <1>1, <1>2, ShortLists
<1>6. MarketPart(e) = (ab \o (IF e = "sqlite" THEN <<>> ELSE cd)) \o h
  BY <1>3
<1> HIDE DEF ab, cd
<1>7. CASE e = "sqlite"
  <2>1. MarketPart(e) = ab \o h
    BY <1>4, <1>6, <1>7, ConcatEmptySeq
  <2>2. Len(ab \o h) = 4 /\ (ab \o h)[1] = ab[1] /\ (ab \o h)[2] = ab[2] /\ (ab \o h)[3] = ab[3] /\ (ab \o h)[4] = h[1]
    BY <1>2, <1>4, ShortLists
  <2> QED
    BY <1>1, <1>2, <1>4, <1>7, <2>1, <2>2
<1>8. CASE e # "sqlite"
  <2> DEFINE six == ab \o cd
  <2>1. MarketPart(e) = six \o h
    BY <1>6, <1>8
  <2>2. /\ six \in Seq(Sound) /\ Len(six) = 6 /\ six[1] = ab[1] /\ six[2] = ab[2] /\ six[3] = ab[3]
        /\ six[4] = cd[1] /\ six[5] = cd[2] /\ six[6] = cd[3]
    BY <1>4, <1>5, ShortLists
  <2> HIDE DEF six
  <2>3. /\ Len(six \o h) = 7 /\ (six \o h)[1] = six[1] /\ (six \o h)[2] = six[2] /\ (six \o h)[3] = six[3]
        /\ (six \o h)[4] = six[4] /\ (six \o h)[5] = six[5] /\ (six \o h)[6] = six[6] /\ (six \o h)[7] = h[1]
    BY <1>2, <2>2, ShortLists
  <2> QED
    BY <1>1, <1>2, <1>4, <1>5, <1>8, <2>1, <2>2, <2>3
<1> QED
  BY <1>7, <1>8

\* the administrator and the plans.
LEMMA LastParts ==
    ASSUME NEW e
    PROVE  /\ Len(AdminPart(e)) = 2
           /\ AdminPart(e)[1] = Deed("look", "admin", Admin)
           /\ AdminPart(e)[2] = Deed("admin", "admin", Admin)
           /\ Len(PlanPart(e)) = 2
           /\ PlanPart(e)[1] = Deed("look", "plans", Plans)
           /\ PlanPart(e)[2] = Deed("add", "plans", Plans)
<1> DEFINE a == <<Deed("look", "admin", Admin)>>
           b == One("admin", "admin")
<1>1. /\ a \in Seq(Sound) /\ Len(a) = 1 /\ a[1] = Deed("look", "admin", Admin)
  <2>1. Deed("look", "admin", Admin) \in Sound
    BY ThingsKnown DEF Deed, Sound, Deeds, StartParts
  <2> QED
    BY <2>1
<1>2. b \in Seq(Sound) /\ Len(b) = 1 /\ b[1] = Deed("admin", "admin", Admin)
  BY OneSound, OneSpelled DEF Deeds, StartParts
<1>3. AdminPart(e) = a \o b
  BY DEF AdminPart, Deed
<1> HIDE DEF a, b
<1>4. Len(a \o b) = 2 /\ (a \o b)[1] = a[1] /\ (a \o b)[2] = b[1]
  BY <1>1, <1>2, ShortLists
<1>5. /\ Len(PlanPart(e)) = 2
      /\ PlanPart(e)[1] = Deed("look", "plans", Plans)
      /\ PlanPart(e)[2] = Deed("add", "plans", Plans)
  <2>1. <<Plans>> \in Seq(Loose) /\ Len(<<Plans>>) = 1 /\ <<Plans>>[1] = Plans /\ "plans" \in StartParts
    BY RowsLoose DEF StartParts
  <2> QED
    BY <2>1, AddOfOne DEF PlanPart
<1> QED
  BY <1>1, <1>2, <1>3, <1>4, <1>5

\* What is where in the whole of a start: for each statement what it does, in which part, on what.
PlacesOfAll ==
    /\ FullStart[1] = Deed("look", "tables", Tables[1])
    /\ \A k \in 1 .. 4 : FullStart[k + 1] = Deed("add", "tables", Tables[k])
    /\ FullStart[6] = Deed("commit", "tables", Admin)
    /\ FullStart[7] = Deed("look", "reports", ReportColumns[1])
    /\ FullStart[8] = Deed("add", "reports", ReportColumns[1])
    /\ FullStart[9] = Deed("add", "reports", ReportColumns[2])
    /\ FullStart[10] = Deed("index", "reports", ReportIndexes[1])
    /\ FullStart[11] = Deed("commit", "reports", Admin)
    /\ FullStart[HashAt] = Deed("hash", "tokens", Admin)
    /\ FullStart[HashAt + 1] = Deed("reencrypt", "keys", Admin)
    /\ FullStart[HashAt + 2] = Deed("look", "legacy", Legacy)
    /\ FullStart[HashAt + 3] = Deed("add", "legacy", Legacy)
    /\ FullStart[HashAt + 4] = Deed("attach", "legacy", Admin)
    /\ FullStart[IndexAt] = Deed("index", "indexes", IndexedTables[2])
    /\ FullStart[IndexAt + 1] = Deed("look", "market", MarketTables[1])
    /\ FullStart[IndexAt + 2] = Deed("add", "market", MarketTables[1])
    /\ FullStart[IndexAt + 3] = Deed("commit", "market", Admin)
    /\ FullStart[HealthyAt] = Deed("healthy", "market", Admin)
    /\ FullStart[HealthyAt + 1] = Deed("look", "admin", Admin)
    /\ FullStart[HealthyAt + 2] = Deed("admin", "admin", Admin)
    /\ FullStart[HealthyAt + 3] = Deed("look", "plans", Plans)
    /\ FullStart[HealthyAt + 4] = Deed("add", "plans", Plans)

PlacesOnSqlite ==
    /\ FullStart[12] = Deed("look", "users", LoginColumns[1])
    /\ FullStart[13] = Deed("add", "users", LoginColumns[1])
    /\ FullStart[14] = Deed("look", "users", LlmColumns[1])
    /\ FullStart[15] = Deed("add", "users", LlmColumns[1])
    /\ FullStart[16] = Deed("add", "users", AccountColumns[1])
    /\ FullStart[17] = Deed("look", "tokens", TokenColumns[1])
    /\ FullStart[18] = Deed("add", "tokens", TokenColumns[1])
    /\ FullStart[24] = Deed("index", "indexes", IndexedTables[1])

PlacesElsewhere ==
    /\ FullStart[21] = Deed("look", "factor", FactorColumns[1])
    /\ FullStart[22] = Deed("add", "factor", FactorColumns[1])
    /\ FullStart[23] = Deed("commit", "factor", Admin)

\* Each statement is at its place.
LEMMA Places ==
    ASSUME engine \in Engines
    PROVE  /\ PlacesOfAll /\ (Sqlite => PlacesOnSqlite) /\ (~Sqlite => PlacesElsewhere)
           /\ Len(FullStart) = HealthyAt + 4 /\ Len(InitDb[engine]) = HealthyAt
           /\ \A k \in 1 .. HealthyAt : InitDb[engine][k] = FullStart[k]
<1> DEFINE C == CreateAll(engine)
           R == ReportPart(engine)
           U == UserPart(engine)
           T == TokenPart(engine)
           K == KeyPart(engine)
           G == LegacyPart(engine)
           I == IndexParts(engine)
           M == MarketPart(engine)
           A == AdminPart(engine)
           P == PlanPart(engine)
           toR == C \o R
           toU == toR \o U
           toT == toU \o T
           toK == toT \o K
           toG == toK \o G
           toI == toG \o I
           toM == toI \o M
           toA == toM \o A
           toP == toA \o P
<1>1. /\ C \in Seq(Sound) /\ R \in Seq(Sound) /\ U \in Seq(Sound) /\ T \in Seq(Sound) /\ K \in Seq(Sound)
      /\ G \in Seq(Sound) /\ I \in Seq(Sound) /\ M \in Seq(Sound) /\ A \in Seq(Sound) /\ P \in Seq(Sound)
  BY PartsSound
<1>2. InitDb[engine] = toM /\ FullStart = toP
  BY DEF InitDb, Lifespan, FullStart
<1>3. /\ Len(C) = 6 /\ Len(R) = 5 /\ Len(K) = 1 /\ Len(G) = 3 /\ Len(A) = 2 /\ Len(P) = 2
      /\ C[1] = Deed("look", "tables", Tables[1])
      /\ \A k \in 1 .. 4 : C[k + 1] = Deed("add", "tables", Tables[k])
      /\ C[6] = Deed("commit", "tables", Admin)
      /\ R[1] = Deed("look", "reports", ReportColumns[1])
      /\ R[2] = Deed("add", "reports", ReportColumns[1])
      /\ R[3] = Deed("add", "reports", ReportColumns[2])
      /\ R[4] = Deed("index", "reports", ReportIndexes[1])
      /\ R[5] = Deed("commit", "reports", Admin)
      /\ K[1] = Deed("reencrypt", "keys", Admin)
      /\ G[1] = Deed("look", "legacy", Legacy) /\ G[2] = Deed("add", "legacy", Legacy)
      /\ G[3] = Deed("attach", "legacy", Admin)
      /\ A[1] = Deed("look", "admin", Admin) /\ A[2] = Deed("admin", "admin", Admin)
      /\ P[1] = Deed("look", "plans", Plans) /\ P[2] = Deed("add", "plans", Plans)
  BY FirstParts, UserParts, MiddleParts, LastParts
<1>4. Sqlite =>
      /\ Len(U) = 5 /\ Len(T) = 3 /\ Len(I) = 2 /\ Len(M) = 4
      /\ U[1] = Deed("look", "users", LoginColumns[1]) /\ U[2] = Deed("add", "users", LoginColumns[1])
      /\ U[3] = Deed("look", "users", LlmColumns[1]) /\ U[4] = Deed("add", "users", LlmColumns[1])
      /\ U[5] = Deed("add", "users", AccountColumns[1])
      /\ T[1] = Deed("look", "tokens", TokenColumns[1]) /\ T[2] = Deed("add", "tokens", TokenColumns[1])
      /\ T[3] = Deed("hash", "tokens", Admin)
      /\ I[1] = Deed("index", "indexes", IndexedTables[1]) /\ I[2] = Deed("index", "indexes", IndexedTables[2])
      /\ M[4] = Deed("healthy", "market", Admin)
  BY UserParts, MiddleParts, MarketParts DEF Sqlite
<1>5. ~Sqlite =>
      /\ Len(U) = 0 /\ Len(T) = 1 /\ Len(I) = 1 /\ Len(M) = 7
      /\ T[1] = Deed("hash", "tokens", Admin)
      /\ I[1] = Deed("index", "indexes", IndexedTables[2])
      /\ M[4] = Deed("look", "factor", FactorColumns[1]) /\ M[5] = Deed("add", "factor", FactorColumns[1])
      /\ M[6] = Deed("commit", "factor", Admin) /\ M[7] = Deed("healthy", "market", Admin)
  BY UserParts, MiddleParts, MarketParts DEF Sqlite
<1>6. /\ M[1] = Deed("look", "market", MarketTables[1]) /\ M[2] = Deed("add", "market", MarketTables[1])
      /\ M[3] = Deed("commit", "market", Admin)
  BY MarketParts
<1> HIDE DEF C, R, U, T, K, G, I, M, A, P, toR, toU, toT, toK, toG, toI, toM, toA, toP, FullStart, Deed
<1>10. /\ toR \in Seq(Sound) /\ Len(toR) = Len(C) + Len(R)
       /\ \A k \in 1 .. Len(C) : toR[k] = C[k]
       /\ \A k \in 1 .. Len(R) : toR[Len(C) + k] = R[k]
  BY <1>1, Joined DEF toR
<1>11. /\ toU \in Seq(Sound) /\ Len(toU) = Len(toR) + Len(U)
       /\ \A k \in 1 .. Len(toR) : toU[k] = toR[k]
       /\ \A k \in 1 .. Len(U) : toU[Len(toR) + k] = U[k]
  <2>1. toR \in Seq(Sound) /\ U \in Seq(Sound)
    BY <1>1, <1>10, Zenon
  <2> QED
    BY <2>1, Joined DEF toU
<1>12. /\ toT \in Seq(Sound) /\ Len(toT) = Len(toU) + Len(T)
       /\ \A k \in 1 .. Len(toU) : toT[k] = toU[k]
       /\ \A k \in 1 .. Len(T) : toT[Len(toU) + k] = T[k]
  <2>1. toU \in Seq(Sound) /\ T \in Seq(Sound)
    BY <1>1, <1>11, Zenon
  <2> QED
    BY <2>1, Joined DEF toT
<1>13. /\ toK \in Seq(Sound) /\ Len(toK) = Len(toT) + Len(K)
       /\ \A k \in 1 .. Len(toT) : toK[k] = toT[k]
       /\ \A k \in 1 .. Len(K) : toK[Len(toT) + k] = K[k]
  <2>1. toT \in Seq(Sound) /\ K \in Seq(Sound)
    BY <1>1, <1>12, Zenon
  <2> QED
    BY <2>1, Joined DEF toK
<1>14. /\ toG \in Seq(Sound) /\ Len(toG) = Len(toK) + Len(G)
       /\ \A k \in 1 .. Len(toK) : toG[k] = toK[k]
       /\ \A k \in 1 .. Len(G) : toG[Len(toK) + k] = G[k]
  <2>1. toK \in Seq(Sound) /\ G \in Seq(Sound)
    BY <1>1, <1>13, Zenon
  <2> QED
    BY <2>1, Joined DEF toG
<1>15. /\ toI \in Seq(Sound) /\ Len(toI) = Len(toG) + Len(I)
       /\ \A k \in 1 .. Len(toG) : toI[k] = toG[k]
       /\ \A k \in 1 .. Len(I) : toI[Len(toG) + k] = I[k]
  <2>1. toG \in Seq(Sound) /\ I \in Seq(Sound)
    BY <1>1, <1>14, Zenon
  <2> QED
    BY <2>1, Joined DEF toI
<1>16. /\ toM \in Seq(Sound) /\ Len(toM) = Len(toI) + Len(M)
       /\ \A k \in 1 .. Len(toI) : toM[k] = toI[k]
       /\ \A k \in 1 .. Len(M) : toM[Len(toI) + k] = M[k]
  <2>1. toI \in Seq(Sound) /\ M \in Seq(Sound)
    BY <1>1, <1>15, Zenon
  <2> QED
    BY <2>1, Joined DEF toM
<1>17. /\ toA \in Seq(Sound) /\ Len(toA) = Len(toM) + Len(A)
       /\ \A k \in 1 .. Len(toM) : toA[k] = toM[k]
       /\ \A k \in 1 .. Len(A) : toA[Len(toM) + k] = A[k]
  <2>1. toM \in Seq(Sound) /\ A \in Seq(Sound)
    BY <1>1, <1>16, Zenon
  <2> QED
    BY <2>1, Joined DEF toA
<1>18. /\ toP \in Seq(Sound) /\ Len(toP) = Len(toA) + Len(P)
       /\ \A k \in 1 .. Len(toA) : toP[k] = toA[k]
       /\ \A k \in 1 .. Len(P) : toP[Len(toA) + k] = P[k]
  <2>1. toA \in Seq(Sound) /\ P \in Seq(Sound)
    BY <1>1, <1>17, Zenon
  <2> QED
    BY <2>1, Joined DEF toP
<1>20. CASE Sqlite
  <2>1. /\ Len(R) = 5 /\ Len(U) = 5 /\ Len(T) = 3 /\ Len(K) = 1 /\ Len(G) = 3 /\ Len(I) = 2 /\ Len(M) = 4 /\ Len(A) = 2 /\ Len(P) = 2
    BY <1>3, <1>4, <1>20
  <2>2. /\ Len(toR) = 11 /\ Len(toU) = 16 /\ Len(toT) = 19 /\ Len(toK) = 20 /\ Len(toG) = 23
        /\ Len(toI) = 25 /\ Len(toM) = 29 /\ Len(toA) = 31 /\ Len(toP) = 33
    BY <1>3, <2>1, <1>10, <1>11, <1>12, <1>13, <1>14, <1>15, <1>16, <1>17, <1>18
  <2>3. \A k \in 1 .. 31 : toP[k] = toA[k]
    BY <1>18, <2>2
  <2>4. \A k \in 1 .. 29 : toP[k] = toM[k]
    <3>1. \A k \in 1 .. 29 : toA[k] = toM[k]
      BY <1>17, <2>2
    <3>2. \A k \in 1 .. 29 : toP[k] = toA[k]
      BY <2>3
    <3> QED
      BY <3>1, <3>2
  <2>5. \A k \in 1 .. 25 : toP[k] = toI[k]
    <3>1. \A k \in 1 .. 25 : toM[k] = toI[k]
      BY <1>16, <2>2
    <3>2. \A k \in 1 .. 25 : toP[k] = toM[k]
      BY <2>4
    <3> QED
      BY <3>1, <3>2
  <2>6. \A k \in 1 .. 23 : toP[k] = toG[k]
    <3>1. \A k \in 1 .. 23 : toI[k] = toG[k]
      BY <1>15, <2>2
    <3>2. \A k \in 1 .. 23 : toP[k] = toI[k]
      BY <2>5
    <3> QED
      BY <3>1, <3>2
  <2>7. \A k \in 1 .. 20 : toP[k] = toK[k]
    <3>1. \A k \in 1 .. 20 : toG[k] = toK[k]
      BY <1>14, <2>2
    <3>2. \A k \in 1 .. 20 : toP[k] = toG[k]
      BY <2>6
    <3> QED
      BY <3>1, <3>2
  <2>8. \A k \in 1 .. 19 : toP[k] = toT[k]
    <3>1. \A k \in 1 .. 19 : toK[k] = toT[k]
      BY <1>13, <2>2
    <3>2. \A k \in 1 .. 19 : toP[k] = toK[k]
      BY <2>7
    <3> QED
      BY <3>1, <3>2
  <2>9. \A k \in 1 .. 16 : toP[k] = toU[k]
    <3>1. \A k \in 1 .. 16 : toT[k] = toU[k]
      BY <1>12, <2>2
    <3>2. \A k \in 1 .. 16 : toP[k] = toT[k]
      BY <2>8
    <3> QED
      BY <3>1, <3>2
  <2>10. \A k \in 1 .. 11 : toP[k] = toR[k]
    <3>1. \A k \in 1 .. 11 : toU[k] = toR[k]
      BY <1>11, <2>2
    <3>2. \A k \in 1 .. 11 : toP[k] = toU[k]
      BY <2>9
    <3> QED
      BY <3>1, <3>2
  <2>11. \A k \in 1 .. 6 : toP[k] = C[k]
    <3>1. \A k \in 1 .. 6 : toR[k] = C[k]
      BY <1>3, <1>10, <2>2
    <3>2. \A k \in 1 .. 6 : toP[k] = toR[k]
      BY <2>10
    <3> QED
      BY <3>1, <3>2
  <2>12. /\ toP[7] = R[1] /\ toP[8] = R[2] /\ toP[9] = R[3] /\ toP[10] = R[4] /\ toP[11] = R[5]
    <3>1. \A k \in 1 .. 5 : toR[6 + k] = R[k]
      BY <1>3, <1>10, <2>1, <2>2
    <3>2. /\ toR[6 + 1] = R[1] /\ toR[6 + 2] = R[2] /\ toR[6 + 3] = R[3] /\ toR[6 + 4] = R[4] /\ toR[6 + 5] = R[5]
      BY <3>1
    <3>3. /\ toP[7] = toR[7] /\ toP[8] = toR[8] /\ toP[9] = toR[9] /\ toP[10] = toR[10] /\ toP[11] = toR[11]
      BY <2>10
    <3> QED
      BY <3>2, <3>3
  <2>13. /\ toP[12] = U[1] /\ toP[13] = U[2] /\ toP[14] = U[3] /\ toP[15] = U[4] /\ toP[16] = U[5]
    <3>1. \A k \in 1 .. 5 : toU[11 + k] = U[k]
      <4>1. Len(toR) = 11 /\ Len(U) = 5
        BY <2>1, <2>2, Zenon
      <4>2. \A k \in 1 .. Len(U) : toU[Len(toR) + k] = U[k]
        BY <1>11, Zenon
      <4> QED
        BY <4>1, <4>2
    <3>2. /\ toU[11 + 1] = U[1] /\ toU[11 + 2] = U[2] /\ toU[11 + 3] = U[3] /\ toU[11 + 4] = U[4] /\ toU[11 + 5] = U[5]
      BY <3>1
    <3>3. /\ toP[12] = toU[12] /\ toP[13] = toU[13] /\ toP[14] = toU[14] /\ toP[15] = toU[15] /\ toP[16] = toU[16]
      BY <2>9
    <3> QED
      BY <3>2, <3>3
  <2>14. /\ toP[17] = T[1] /\ toP[18] = T[2] /\ toP[19] = T[3]
    <3>1. \A k \in 1 .. 3 : toT[16 + k] = T[k]
      <4>1. Len(toU) = 16 /\ Len(T) = 3
        BY <2>1, <2>2, Zenon
      <4>2. \A k \in 1 .. Len(T) : toT[Len(toU) + k] = T[k]
        BY <1>12, Zenon
      <4> QED
        BY <4>1, <4>2
    <3>2. /\ toT[16 + 1] = T[1] /\ toT[16 + 2] = T[2] /\ toT[16 + 3] = T[3]
      BY <3>1
    <3>3. /\ toP[17] = toT[17] /\ toP[18] = toT[18] /\ toP[19] = toT[19]
      BY <2>8
    <3> QED
      BY <3>2, <3>3
  <2>15. /\ toP[20] = K[1]
    <3>1. \A k \in 1 .. 1 : toK[19 + k] = K[k]
      <4>1. Len(toT) = 19 /\ Len(K) = 1
        BY <2>1, <2>2, Zenon
      <4>2. \A k \in 1 .. Len(K) : toK[Len(toT) + k] = K[k]
        BY <1>13, Zenon
      <4> QED
        BY <4>1, <4>2
    <3>2. /\ toK[19 + 1] = K[1]
      BY <3>1
    <3>3. /\ toP[20] = toK[20]
      BY <2>7
    <3> QED
      BY <3>2, <3>3
  <2>16. /\ toP[21] = G[1] /\ toP[22] = G[2] /\ toP[23] = G[3]
    <3>1. \A k \in 1 .. 3 : toG[20 + k] = G[k]
      <4>1. Len(toK) = 20 /\ Len(G) = 3
        BY <2>1, <2>2, Zenon
      <4>2. \A k \in 1 .. Len(G) : toG[Len(toK) + k] = G[k]
        BY <1>14, Zenon
      <4> QED
        BY <4>1, <4>2
    <3>2. /\ toG[20 + 1] = G[1] /\ toG[20 + 2] = G[2] /\ toG[20 + 3] = G[3]
      BY <3>1
    <3>3. /\ toP[21] = toG[21] /\ toP[22] = toG[22] /\ toP[23] = toG[23]
      BY <2>6
    <3> QED
      BY <3>2, <3>3
  <2>17. /\ toP[24] = I[1] /\ toP[25] = I[2]
    <3>1. \A k \in 1 .. 2 : toI[23 + k] = I[k]
      <4>1. Len(toG) = 23 /\ Len(I) = 2
        BY <2>1, <2>2, Zenon
      <4>2. \A k \in 1 .. Len(I) : toI[Len(toG) + k] = I[k]
        BY <1>15, Zenon
      <4> QED
        BY <4>1, <4>2
    <3>2. /\ toI[23 + 1] = I[1] /\ toI[23 + 2] = I[2]
      BY <3>1
    <3>3. /\ toP[24] = toI[24] /\ toP[25] = toI[25]
      BY <2>5
    <3> QED
      BY <3>2, <3>3
  <2>18. /\ toP[26] = M[1] /\ toP[27] = M[2] /\ toP[28] = M[3] /\ toP[29] = M[4]
    <3>1. \A k \in 1 .. 4 : toM[25 + k] = M[k]
      <4>1. Len(toI) = 25 /\ Len(M) = 4
        BY <2>1, <2>2, Zenon
      <4>2. \A k \in 1 .. Len(M) : toM[Len(toI) + k] = M[k]
        BY <1>16, Zenon
      <4> QED
        BY <4>1, <4>2
    <3>2. /\ toM[25 + 1] = M[1] /\ toM[25 + 2] = M[2] /\ toM[25 + 3] = M[3] /\ toM[25 + 4] = M[4]
      BY <3>1
    <3>3. /\ toP[26] = toM[26] /\ toP[27] = toM[27] /\ toP[28] = toM[28] /\ toP[29] = toM[29]
      BY <2>4
    <3> QED
      BY <3>2, <3>3
  <2>19. /\ toP[30] = A[1] /\ toP[31] = A[2]
    <3>1. \A k \in 1 .. 2 : toA[29 + k] = A[k]
      <4>1. Len(toM) = 29 /\ Len(A) = 2
        BY <2>1, <2>2, Zenon
      <4>2. \A k \in 1 .. Len(A) : toA[Len(toM) + k] = A[k]
        BY <1>17, Zenon
      <4> QED
        BY <4>1, <4>2
    <3>2. /\ toA[29 + 1] = A[1] /\ toA[29 + 2] = A[2]
      BY <3>1
    <3>3. /\ toP[30] = toA[30] /\ toP[31] = toA[31]
      BY <2>3
    <3> QED
      BY <3>2, <3>3
  <2>20. /\ toP[32] = P[1] /\ toP[33] = P[2]
    <3>1. \A k \in 1 .. 2 : toP[31 + k] = P[k]
      <4>1. Len(toA) = 31 /\ Len(P) = 2
        BY <2>1, <2>2, Zenon
      <4>2. \A k \in 1 .. Len(P) : toP[Len(toA) + k] = P[k]
        BY <1>18, Zenon
      <4> QED
        BY <4>1, <4>2
    <3>2. /\ toP[31 + 1] = P[1] /\ toP[31 + 2] = P[2]
      BY <3>1
    <3> QED
      BY <3>2
  <2>21. PlacesOfAll
    <3>1. \A k \in 1 .. 4 : toP[k + 1] = C[k + 1]
      BY <2>11
    <3>2. toP[1] = C[1] /\ toP[6] = C[6]
      BY <2>11
    <3>3. \A k \in 1 .. 4 : toP[k + 1] = Deed("add", "tables", Tables[k])
      BY <1>3, <3>1
    <3>4. /\ toP[1] = Deed("look", "tables", Tables[1])
          /\ toP[6] = Deed("commit", "tables", Admin)
          /\ toP[7] = Deed("look", "reports", ReportColumns[1])
          /\ toP[8] = Deed("add", "reports", ReportColumns[1])
          /\ toP[9] = Deed("add", "reports", ReportColumns[2])
          /\ toP[10] = Deed("index", "reports", ReportIndexes[1])
          /\ toP[11] = Deed("commit", "reports", Admin)
      BY <1>3, <3>2, <2>12
    <3>5. /\ toP[19] = Deed("hash", "tokens", Admin)
          /\ toP[20] = Deed("reencrypt", "keys", Admin)
          /\ toP[21] = Deed("look", "legacy", Legacy)
          /\ toP[22] = Deed("add", "legacy", Legacy)
          /\ toP[23] = Deed("attach", "legacy", Admin)
          /\ toP[25] = Deed("index", "indexes", IndexedTables[2])
      BY <1>3, <1>4, <1>20, <2>14, <2>15, <2>16, <2>17
    <3>6. /\ toP[26] = Deed("look", "market", MarketTables[1])
          /\ toP[27] = Deed("add", "market", MarketTables[1])
          /\ toP[28] = Deed("commit", "market", Admin)
          /\ toP[29] = Deed("healthy", "market", Admin)
      BY <1>6, <1>4, <1>20, <2>18
    <3>7. /\ toP[30] = Deed("look", "admin", Admin)
          /\ toP[31] = Deed("admin", "admin", Admin)
          /\ toP[32] = Deed("look", "plans", Plans)
          /\ toP[33] = Deed("add", "plans", Plans)
      BY <1>3, <2>19, <2>20
    <3>8. HashAt = 19 /\ IndexAt = 25 /\ HealthyAt = 29
      BY <1>20 DEF HashAt, IndexAt, HealthyAt
    <3> HIDE DEF HashAt, IndexAt, HealthyAt
    <3> QED
      BY <1>2, <3>3, <3>4, <3>5, <3>6, <3>7, <3>8 DEF PlacesOfAll
  <2>22. PlacesOnSqlite
    BY <1>2, <1>4, <1>20, <2>12, <2>13, <2>14, <2>15, <2>16, <2>17, <2>18, <2>19, <2>20 DEF PlacesOnSqlite
  <2>23. Len(toP) = HealthyAt + 4 /\ Len(toM) = HealthyAt
    BY <1>20, <2>2 DEF HealthyAt
  <2>24. \A k \in 1 .. HealthyAt : toM[k] = toP[k]
    BY <1>20, <2>4 DEF HealthyAt
  <2> QED
    BY <1>2, <1>20, <2>21, <2>22, <2>23, <2>24
<1>21. CASE ~Sqlite
  <2>1. /\ Len(R) = 5 /\ Len(U) = 0 /\ Len(T) = 1 /\ Len(K) = 1 /\ Len(G) = 3 /\ Len(I) = 1 /\ Len(M) = 7 /\ Len(A) = 2 /\ Len(P) = 2
    BY <1>3, <1>5, <1>21
  <2>2. /\ Len(toR) = 11 /\ Len(toU) = 11 /\ Len(toT) = 12 /\ Len(toK) = 13 /\ Len(toG) = 16
        /\ Len(toI) = 17 /\ Len(toM) = 24 /\ Len(toA) = 26 /\ Len(toP) = 28
    BY <1>3, <2>1, <1>10, <1>11, <1>12, <1>13, <1>14, <1>15, <1>16, <1>17, <1>18
  <2>3. \A k \in 1 .. 26 : toP[k] = toA[k]
    BY <1>18, <2>2
  <2>4. \A k \in 1 .. 24 : toP[k] = toM[k]
    <3>1. \A k \in 1 .. 24 : toA[k] = toM[k]
      BY <1>17, <2>2
    <3>2. \A k \in 1 .. 24 : toP[k] = toA[k]
      BY <2>3
    <3> QED
      BY <3>1, <3>2
  <2>5. \A k \in 1 .. 17 : toP[k] = toI[k]
    <3>1. \A k \in 1 .. 17 : toM[k] = toI[k]
      BY <1>16, <2>2
    <3>2. \A k \in 1 .. 17 : toP[k] = toM[k]
      BY <2>4
    <3> QED
      BY <3>1, <3>2
  <2>6. \A k \in 1 .. 16 : toP[k] = toG[k]
    <3>1. \A k \in 1 .. 16 : toI[k] = toG[k]
      BY <1>15, <2>2
    <3>2. \A k \in 1 .. 16 : toP[k] = toI[k]
      BY <2>5
    <3> QED
      BY <3>1, <3>2
  <2>7. \A k \in 1 .. 13 : toP[k] = toK[k]
    <3>1. \A k \in 1 .. 13 : toG[k] = toK[k]
      BY <1>14, <2>2
    <3>2. \A k \in 1 .. 13 : toP[k] = toG[k]
      BY <2>6
    <3> QED
      BY <3>1, <3>2
  <2>8. \A k \in 1 .. 12 : toP[k] = toT[k]
    <3>1. \A k \in 1 .. 12 : toK[k] = toT[k]
      BY <1>13, <2>2
    <3>2. \A k \in 1 .. 12 : toP[k] = toK[k]
      BY <2>7
    <3> QED
      BY <3>1, <3>2
  <2>9. \A k \in 1 .. 11 : toP[k] = toU[k]
    <3>1. \A k \in 1 .. 11 : toT[k] = toU[k]
      BY <1>12, <2>2
    <3>2. \A k \in 1 .. 11 : toP[k] = toT[k]
      BY <2>8
    <3> QED
      BY <3>1, <3>2
  <2>10. \A k \in 1 .. 11 : toP[k] = toR[k]
    <3>1. \A k \in 1 .. 11 : toU[k] = toR[k]
      BY <1>11, <2>2
    <3>2. \A k \in 1 .. 11 : toP[k] = toU[k]
      BY <2>9
    <3> QED
      BY <3>1, <3>2
  <2>11. \A k \in 1 .. 6 : toP[k] = C[k]
    <3>1. \A k \in 1 .. 6 : toR[k] = C[k]
      BY <1>3, <1>10, <2>2
    <3>2. \A k \in 1 .. 6 : toP[k] = toR[k]
      BY <2>10
    <3> QED
      BY <3>1, <3>2
  <2>12. /\ toP[7] = R[1] /\ toP[8] = R[2] /\ toP[9] = R[3] /\ toP[10] = R[4] /\ toP[11] = R[5]
    <3>1. \A k \in 1 .. 5 : toR[6 + k] = R[k]
      BY <1>3, <1>10, <2>1, <2>2
    <3>2. /\ toR[6 + 1] = R[1] /\ toR[6 + 2] = R[2] /\ toR[6 + 3] = R[3] /\ toR[6 + 4] = R[4] /\ toR[6 + 5] = R[5]
      BY <3>1
    <3>3. /\ toP[7] = toR[7] /\ toP[8] = toR[8] /\ toP[9] = toR[9] /\ toP[10] = toR[10] /\ toP[11] = toR[11]
      BY <2>10
    <3> QED
      BY <3>2, <3>3
  <2>13. /\ toP[12] = T[1]
    <3>1. \A k \in 1 .. 1 : toT[11 + k] = T[k]
      <4>1. Len(toU) = 11 /\ Len(T) = 1
        BY <2>1, <2>2, Zenon
      <4>2. \A k \in 1 .. Len(T) : toT[Len(toU) + k] = T[k]
        BY <1>12, Zenon
      <4> QED
        BY <4>1, <4>2
    <3>2. /\ toT[11 + 1] = T[1]
      BY <3>1
    <3>3. /\ toP[12] = toT[12]
      BY <2>8
    <3> QED
      BY <3>2, <3>3
  <2>14. /\ toP[13] = K[1]
    <3>1. \A k \in 1 .. 1 : toK[12 + k] = K[k]
      <4>1. Len(toT) = 12 /\ Len(K) = 1
        BY <2>1, <2>2, Zenon
      <4>2. \A k \in 1 .. Len(K) : toK[Len(toT) + k] = K[k]
        BY <1>13, Zenon
      <4> QED
        BY <4>1, <4>2
    <3>2. /\ toK[12 + 1] = K[1]
      BY <3>1
    <3>3. /\ toP[13] = toK[13]
      BY <2>7
    <3> QED
      BY <3>2, <3>3
  <2>15. /\ toP[14] = G[1] /\ toP[15] = G[2] /\ toP[16] = G[3]
    <3>1. \A k \in 1 .. 3 : toG[13 + k] = G[k]
      <4>1. Len(toK) = 13 /\ Len(G) = 3
        BY <2>1, <2>2, Zenon
      <4>2. \A k \in 1 .. Len(G) : toG[Len(toK) + k] = G[k]
        BY <1>14, Zenon
      <4> QED
        BY <4>1, <4>2
    <3>2. /\ toG[13 + 1] = G[1] /\ toG[13 + 2] = G[2] /\ toG[13 + 3] = G[3]
      BY <3>1
    <3>3. /\ toP[14] = toG[14] /\ toP[15] = toG[15] /\ toP[16] = toG[16]
      BY <2>6
    <3> QED
      BY <3>2, <3>3
  <2>16. /\ toP[17] = I[1]
    <3>1. \A k \in 1 .. 1 : toI[16 + k] = I[k]
      <4>1. Len(toG) = 16 /\ Len(I) = 1
        BY <2>1, <2>2, Zenon
      <4>2. \A k \in 1 .. Len(I) : toI[Len(toG) + k] = I[k]
        BY <1>15, Zenon
      <4> QED
        BY <4>1, <4>2
    <3>2. /\ toI[16 + 1] = I[1]
      BY <3>1
    <3>3. /\ toP[17] = toI[17]
      BY <2>5
    <3> QED
      BY <3>2, <3>3
  <2>17. /\ toP[18] = M[1] /\ toP[19] = M[2] /\ toP[20] = M[3] /\ toP[21] = M[4] /\ toP[22] = M[5] /\ toP[23] = M[6] /\ toP[24] = M[7]
    <3>1. \A k \in 1 .. 7 : toM[17 + k] = M[k]
      <4>1. Len(toI) = 17 /\ Len(M) = 7
        BY <2>1, <2>2, Zenon
      <4>2. \A k \in 1 .. Len(M) : toM[Len(toI) + k] = M[k]
        BY <1>16, Zenon
      <4> QED
        BY <4>1, <4>2
    <3>2. /\ toM[17 + 1] = M[1] /\ toM[17 + 2] = M[2] /\ toM[17 + 3] = M[3] /\ toM[17 + 4] = M[4] /\ toM[17 + 5] = M[5] /\ toM[17 + 6] = M[6] /\ toM[17 + 7] = M[7]
      BY <3>1
    <3>3. /\ toP[18] = toM[18] /\ toP[19] = toM[19] /\ toP[20] = toM[20] /\ toP[21] = toM[21] /\ toP[22] = toM[22] /\ toP[23] = toM[23] /\ toP[24] = toM[24]
      BY <2>4
    <3> QED
      BY <3>2, <3>3
  <2>18. /\ toP[25] = A[1] /\ toP[26] = A[2]
    <3>1. \A k \in 1 .. 2 : toA[24 + k] = A[k]
      <4>1. Len(toM) = 24 /\ Len(A) = 2
        BY <2>1, <2>2, Zenon
      <4>2. \A k \in 1 .. Len(A) : toA[Len(toM) + k] = A[k]
        BY <1>17, Zenon
      <4> QED
        BY <4>1, <4>2
    <3>2. /\ toA[24 + 1] = A[1] /\ toA[24 + 2] = A[2]
      BY <3>1
    <3>3. /\ toP[25] = toA[25] /\ toP[26] = toA[26]
      BY <2>3
    <3> QED
      BY <3>2, <3>3
  <2>19. /\ toP[27] = P[1] /\ toP[28] = P[2]
    <3>1. \A k \in 1 .. 2 : toP[26 + k] = P[k]
      <4>1. Len(toA) = 26 /\ Len(P) = 2
        BY <2>1, <2>2, Zenon
      <4>2. \A k \in 1 .. Len(P) : toP[Len(toA) + k] = P[k]
        BY <1>18, Zenon
      <4> QED
        BY <4>1, <4>2
    <3>2. /\ toP[26 + 1] = P[1] /\ toP[26 + 2] = P[2]
      BY <3>1
    <3> QED
      BY <3>2
  <2>20. PlacesOfAll
    <3>1. \A k \in 1 .. 4 : toP[k + 1] = C[k + 1]
      BY <2>11
    <3>2. toP[1] = C[1] /\ toP[6] = C[6]
      BY <2>11
    <3>3. \A k \in 1 .. 4 : toP[k + 1] = Deed("add", "tables", Tables[k])
      BY <1>3, <3>1
    <3>4. /\ toP[1] = Deed("look", "tables", Tables[1])
          /\ toP[6] = Deed("commit", "tables", Admin)
          /\ toP[7] = Deed("look", "reports", ReportColumns[1])
          /\ toP[8] = Deed("add", "reports", ReportColumns[1])
          /\ toP[9] = Deed("add", "reports", ReportColumns[2])
          /\ toP[10] = Deed("index", "reports", ReportIndexes[1])
          /\ toP[11] = Deed("commit", "reports", Admin)
      BY <1>3, <3>2, <2>12
    <3>5. /\ toP[12] = Deed("hash", "tokens", Admin)
          /\ toP[13] = Deed("reencrypt", "keys", Admin)
          /\ toP[14] = Deed("look", "legacy", Legacy)
          /\ toP[15] = Deed("add", "legacy", Legacy)
          /\ toP[16] = Deed("attach", "legacy", Admin)
          /\ toP[17] = Deed("index", "indexes", IndexedTables[2])
      BY <1>3, <1>5, <1>21, <2>13, <2>14, <2>15, <2>16
    <3>6. /\ toP[18] = Deed("look", "market", MarketTables[1])
          /\ toP[19] = Deed("add", "market", MarketTables[1])
          /\ toP[20] = Deed("commit", "market", Admin)
          /\ toP[24] = Deed("healthy", "market", Admin)
      BY <1>6, <1>5, <1>21, <2>17
    <3>7. /\ toP[25] = Deed("look", "admin", Admin)
          /\ toP[26] = Deed("admin", "admin", Admin)
          /\ toP[27] = Deed("look", "plans", Plans)
          /\ toP[28] = Deed("add", "plans", Plans)
      BY <1>3, <2>18, <2>19
    <3>8. HashAt = 12 /\ IndexAt = 17 /\ HealthyAt = 24
      BY <1>21 DEF HashAt, IndexAt, HealthyAt
    <3> HIDE DEF HashAt, IndexAt, HealthyAt
    <3> QED
      BY <1>2, <3>3, <3>4, <3>5, <3>6, <3>7, <3>8 DEF PlacesOfAll
  <2>21. PlacesElsewhere
    BY <1>2, <1>5, <1>21, <2>12, <2>13, <2>14, <2>15, <2>16, <2>17, <2>18, <2>19 DEF PlacesElsewhere
  <2>22. Len(toP) = HealthyAt + 4 /\ Len(toM) = HealthyAt
    BY <1>21, <2>2 DEF HealthyAt
  <2>23. \A k \in 1 .. HealthyAt : toM[k] = toP[k]
    BY <1>21, <2>4 DEF HealthyAt
  <2> QED
    BY <1>2, <1>21, <2>20, <2>21, <2>22, <2>23
<1> QED
  BY <1>20, <1>21

\* The tables are the first that is added.
LEMMA TablePlaces ==
    ASSUME engine \in Engines
    PROVE  /\ FullStart[2] = Deed("add", "tables", Tables[1]) /\ FullStart[3] = Deed("add", "tables", Tables[2])
           /\ FullStart[4] = Deed("add", "tables", Tables[3]) /\ FullStart[5] = Deed("add", "tables", Tables[4])
<1>1. \A k \in 1 .. 4 : FullStart[k + 1] = Deed("add", "tables", Tables[k])
  BY Places, Zenon DEF PlacesOfAll
<1>2. FullStart[1 + 1] = Deed("add", "tables", Tables[1]) /\ FullStart[2 + 1] = Deed("add", "tables", Tables[2])
  BY <1>1
<1>3. FullStart[3 + 1] = Deed("add", "tables", Tables[3]) /\ FullStart[4 + 1] = Deed("add", "tables", Tables[4])
  BY <1>1
<1> QED
  BY <1>2, <1>3

\* Where what is done.
LooksAt == {1, 7, HashAt + 2, IndexAt + 1, HealthyAt + 1, HealthyAt + 3} \union (IF Sqlite THEN {12, 14, 17} ELSE {21})
AddsAt == {2, 3, 4, 5, 8, 9, HashAt + 3, IndexAt + 2, HealthyAt + 4} \union (IF Sqlite THEN {13, 15, 16, 18} ELSE {22})
IndexesAt == {10, IndexAt} \union (IF Sqlite THEN {24} ELSE {})
CommitsAt == {6, 11, IndexAt + 3} \union (IF Sqlite THEN {} ELSE {23})

DoneThere(k) ==
    CASE k \in LooksAt -> "look" [] k \in AddsAt -> "add" [] k \in IndexesAt -> "index" [] k \in CommitsAt -> "commit"
      [] k = HashAt -> "hash" [] k = HashAt + 1 -> "reencrypt" [] k = HashAt + 4 -> "attach"
      [] k = HealthyAt -> "healthy" [] k = HealthyAt + 2 -> "admin"

PartOf(k) ==
    IF k <= 6 THEN "tables" ELSE IF k <= 11 THEN "reports"
    ELSE IF k <= HashAt THEN (IF k <= 16 /\ Sqlite THEN "users" ELSE "tokens")
    ELSE IF k = HashAt + 1 THEN "keys" ELSE IF k <= HashAt + 4 THEN "legacy" ELSE IF k <= IndexAt THEN "indexes"
    ELSE IF k <= IndexAt + 3 \/ k = HealthyAt THEN "market" ELSE IF k < HealthyAt THEN "factor"
    ELSE IF k <= HealthyAt + 2 THEN "admin" ELSE "plans"

\* What is done at each place, and in which part.
LEMMA DeedsPlaced ==
    ASSUME engine \in Engines
    PROVE  \A k \in 1 .. HealthyAt + 4 : FullStart[k].do = DoneThere(k) /\ FullStart[k].part = PartOf(k)
<1>1. CASE Sqlite
  <2>1. HashAt = 19 /\ IndexAt = 25 /\ HealthyAt = 29
    BY <1>1 DEF HashAt, IndexAt, HealthyAt
  <2> HIDE DEF HashAt, IndexAt, HealthyAt
  <2>2. \A k \in 1 .. 6 : FullStart[k].do = DoneThere(k) /\ FullStart[k].part = PartOf(k)
    <3>1. /\ FullStart[1].do = "look" /\ FullStart[1].part = "tables"
          /\ FullStart[2].do = "add" /\ FullStart[2].part = "tables"
          /\ FullStart[3].do = "add" /\ FullStart[3].part = "tables"
          /\ FullStart[4].do = "add" /\ FullStart[4].part = "tables"
          /\ FullStart[5].do = "add" /\ FullStart[5].part = "tables"
          /\ FullStart[6].do = "commit" /\ FullStart[6].part = "tables"
      <4>1. FullStart[1] = Deed("look", "tables", Tables[1]) /\ FullStart[6] = Deed("commit", "tables", Admin)
        BY Places, Zenon DEF PlacesOfAll
      <4>2. /\ FullStart[2].do = "add" /\ FullStart[2].part = "tables"
            /\ FullStart[3].do = "add" /\ FullStart[3].part = "tables"
        BY TablePlaces DEF Deed
      <4>3. /\ FullStart[4].do = "add" /\ FullStart[4].part = "tables"
            /\ FullStart[5].do = "add" /\ FullStart[5].part = "tables"
        BY TablePlaces DEF Deed
      <4> QED
        BY <4>1, <4>2, <4>3 DEF Deed
    <3>2. /\ DoneThere(1) = "look" /\ PartOf(1) = "tables"
          /\ DoneThere(2) = "add" /\ PartOf(2) = "tables"
          /\ DoneThere(3) = "add" /\ PartOf(3) = "tables"
          /\ DoneThere(4) = "add" /\ PartOf(4) = "tables"
          /\ DoneThere(5) = "add" /\ PartOf(5) = "tables"
          /\ DoneThere(6) = "commit" /\ PartOf(6) = "tables"
      BY <1>1, <2>1 DEF DoneThere, PartOf, LooksAt, AddsAt, IndexesAt, CommitsAt
    <3>3. \A k \in 1 .. 6 : k = 1 \/ k = 2 \/ k = 3 \/ k = 4 \/ k = 5 \/ k = 6
      OBVIOUS
    <3> QED
      BY <3>1, <3>2, <3>3
  <2>3. \A k \in 7 .. 12 : FullStart[k].do = DoneThere(k) /\ FullStart[k].part = PartOf(k)
    <3>1. /\ FullStart[7].do = "look" /\ FullStart[7].part = "reports"
          /\ FullStart[8].do = "add" /\ FullStart[8].part = "reports"
          /\ FullStart[9].do = "add" /\ FullStart[9].part = "reports"
          /\ FullStart[10].do = "index" /\ FullStart[10].part = "reports"
          /\ FullStart[11].do = "commit" /\ FullStart[11].part = "reports"
          /\ FullStart[12].do = "look" /\ FullStart[12].part = "users"
      BY <1>1, <2>1, Places DEF PlacesOfAll, PlacesOnSqlite, Deed
    <3>2. /\ DoneThere(7) = "look" /\ PartOf(7) = "reports"
          /\ DoneThere(8) = "add" /\ PartOf(8) = "reports"
          /\ DoneThere(9) = "add" /\ PartOf(9) = "reports"
          /\ DoneThere(10) = "index" /\ PartOf(10) = "reports"
          /\ DoneThere(11) = "commit" /\ PartOf(11) = "reports"
          /\ DoneThere(12) = "look" /\ PartOf(12) = "users"
      BY <1>1, <2>1 DEF DoneThere, PartOf, LooksAt, AddsAt, IndexesAt, CommitsAt
    <3>3. \A k \in 7 .. 12 : k = 7 \/ k = 8 \/ k = 9 \/ k = 10 \/ k = 11 \/ k = 12
      OBVIOUS
    <3> QED
      BY <3>1, <3>2, <3>3
  <2>4. \A k \in 13 .. 18 : FullStart[k].do = DoneThere(k) /\ FullStart[k].part = PartOf(k)
    <3>1. /\ FullStart[13].do = "add" /\ FullStart[13].part = "users"
          /\ FullStart[14].do = "look" /\ FullStart[14].part = "users"
          /\ FullStart[15].do = "add" /\ FullStart[15].part = "users"
          /\ FullStart[16].do = "add" /\ FullStart[16].part = "users"
          /\ FullStart[17].do = "look" /\ FullStart[17].part = "tokens"
          /\ FullStart[18].do = "add" /\ FullStart[18].part = "tokens"
      BY <1>1, <2>1, Places DEF PlacesOfAll, PlacesOnSqlite, Deed
    <3>2. /\ DoneThere(13) = "add" /\ PartOf(13) = "users"
          /\ DoneThere(14) = "look" /\ PartOf(14) = "users"
          /\ DoneThere(15) = "add" /\ PartOf(15) = "users"
          /\ DoneThere(16) = "add" /\ PartOf(16) = "users"
          /\ DoneThere(17) = "look" /\ PartOf(17) = "tokens"
          /\ DoneThere(18) = "add" /\ PartOf(18) = "tokens"
      BY <1>1, <2>1 DEF DoneThere, PartOf, LooksAt, AddsAt, IndexesAt, CommitsAt
    <3>3. \A k \in 13 .. 18 : k = 13 \/ k = 14 \/ k = 15 \/ k = 16 \/ k = 17 \/ k = 18
      OBVIOUS
    <3> QED
      BY <3>1, <3>2, <3>3
  <2>5. \A k \in 19 .. 24 : FullStart[k].do = DoneThere(k) /\ FullStart[k].part = PartOf(k)
    <3>1. /\ FullStart[19].do = "hash" /\ FullStart[19].part = "tokens"
          /\ FullStart[20].do = "reencrypt" /\ FullStart[20].part = "keys"
          /\ FullStart[21].do = "look" /\ FullStart[21].part = "legacy"
          /\ FullStart[22].do = "add" /\ FullStart[22].part = "legacy"
          /\ FullStart[23].do = "attach" /\ FullStart[23].part = "legacy"
          /\ FullStart[24].do = "index" /\ FullStart[24].part = "indexes"
      BY <1>1, <2>1, Places DEF PlacesOfAll, PlacesOnSqlite, Deed
    <3>2. /\ DoneThere(19) = "hash" /\ PartOf(19) = "tokens"
          /\ DoneThere(20) = "reencrypt" /\ PartOf(20) = "keys"
          /\ DoneThere(21) = "look" /\ PartOf(21) = "legacy"
          /\ DoneThere(22) = "add" /\ PartOf(22) = "legacy"
          /\ DoneThere(23) = "attach" /\ PartOf(23) = "legacy"
          /\ DoneThere(24) = "index" /\ PartOf(24) = "indexes"
      BY <1>1, <2>1 DEF DoneThere, PartOf, LooksAt, AddsAt, IndexesAt, CommitsAt
    <3>3. \A k \in 19 .. 24 : k = 19 \/ k = 20 \/ k = 21 \/ k = 22 \/ k = 23 \/ k = 24
      OBVIOUS
    <3> QED
      BY <3>1, <3>2, <3>3
  <2>6. \A k \in 25 .. 30 : FullStart[k].do = DoneThere(k) /\ FullStart[k].part = PartOf(k)
    <3>1. /\ FullStart[25].do = "index" /\ FullStart[25].part = "indexes"
          /\ FullStart[26].do = "look" /\ FullStart[26].part = "market"
          /\ FullStart[27].do = "add" /\ FullStart[27].part = "market"
          /\ FullStart[28].do = "commit" /\ FullStart[28].part = "market"
          /\ FullStart[29].do = "healthy" /\ FullStart[29].part = "market"
          /\ FullStart[30].do = "look" /\ FullStart[30].part = "admin"
      BY <1>1, <2>1, Places DEF PlacesOfAll, PlacesOnSqlite, Deed
    <3>2. /\ DoneThere(25) = "index" /\ PartOf(25) = "indexes"
          /\ DoneThere(26) = "look" /\ PartOf(26) = "market"
          /\ DoneThere(27) = "add" /\ PartOf(27) = "market"
          /\ DoneThere(28) = "commit" /\ PartOf(28) = "market"
          /\ DoneThere(29) = "healthy" /\ PartOf(29) = "market"
          /\ DoneThere(30) = "look" /\ PartOf(30) = "admin"
      BY <1>1, <2>1 DEF DoneThere, PartOf, LooksAt, AddsAt, IndexesAt, CommitsAt
    <3>3. \A k \in 25 .. 30 : k = 25 \/ k = 26 \/ k = 27 \/ k = 28 \/ k = 29 \/ k = 30
      OBVIOUS
    <3> QED
      BY <3>1, <3>2, <3>3
  <2>7. \A k \in 31 .. 33 : FullStart[k].do = DoneThere(k) /\ FullStart[k].part = PartOf(k)
    <3>1. /\ FullStart[31].do = "admin" /\ FullStart[31].part = "admin"
          /\ FullStart[32].do = "look" /\ FullStart[32].part = "plans"
          /\ FullStart[33].do = "add" /\ FullStart[33].part = "plans"
      BY <1>1, <2>1, Places DEF PlacesOfAll, PlacesOnSqlite, Deed
    <3>2. /\ DoneThere(31) = "admin" /\ PartOf(31) = "admin"
          /\ DoneThere(32) = "look" /\ PartOf(32) = "plans"
          /\ DoneThere(33) = "add" /\ PartOf(33) = "plans"
      BY <1>1, <2>1 DEF DoneThere, PartOf, LooksAt, AddsAt, IndexesAt, CommitsAt
    <3>3. \A k \in 31 .. 33 : k = 31 \/ k = 32 \/ k = 33
      OBVIOUS
    <3> QED
      BY <3>1, <3>2, <3>3
  <2> QED
    <3> SUFFICES ASSUME NEW k \in 1 .. HealthyAt + 4 PROVE FullStart[k].do = DoneThere(k) /\ FullStart[k].part = PartOf(k)
      OBVIOUS
    <3>1. k \in 1 .. 6 \/ k \in 7 .. 12 \/ k \in 13 .. 18 \/ k \in 19 .. 24 \/ k \in 25 .. 30 \/ k \in 31 .. 33
      BY <2>1
    <3> QED
      BY <3>1, <2>2, <2>3, <2>4, <2>5, <2>6, <2>7
<1>2. CASE ~Sqlite
  <2>1. HashAt = 12 /\ IndexAt = 17 /\ HealthyAt = 24
    BY <1>2 DEF HashAt, IndexAt, HealthyAt
  <2> HIDE DEF HashAt, IndexAt, HealthyAt
  <2>2. \A k \in 1 .. 6 : FullStart[k].do = DoneThere(k) /\ FullStart[k].part = PartOf(k)
    <3>1. /\ FullStart[1].do = "look" /\ FullStart[1].part = "tables"
          /\ FullStart[2].do = "add" /\ FullStart[2].part = "tables"
          /\ FullStart[3].do = "add" /\ FullStart[3].part = "tables"
          /\ FullStart[4].do = "add" /\ FullStart[4].part = "tables"
          /\ FullStart[5].do = "add" /\ FullStart[5].part = "tables"
          /\ FullStart[6].do = "commit" /\ FullStart[6].part = "tables"
      <4>1. FullStart[1] = Deed("look", "tables", Tables[1]) /\ FullStart[6] = Deed("commit", "tables", Admin)
        BY Places, Zenon DEF PlacesOfAll
      <4>2. /\ FullStart[2].do = "add" /\ FullStart[2].part = "tables"
            /\ FullStart[3].do = "add" /\ FullStart[3].part = "tables"
        BY TablePlaces DEF Deed
      <4>3. /\ FullStart[4].do = "add" /\ FullStart[4].part = "tables"
            /\ FullStart[5].do = "add" /\ FullStart[5].part = "tables"
        BY TablePlaces DEF Deed
      <4> QED
        BY <4>1, <4>2, <4>3 DEF Deed
    <3>2. /\ DoneThere(1) = "look" /\ PartOf(1) = "tables"
          /\ DoneThere(2) = "add" /\ PartOf(2) = "tables"
          /\ DoneThere(3) = "add" /\ PartOf(3) = "tables"
          /\ DoneThere(4) = "add" /\ PartOf(4) = "tables"
          /\ DoneThere(5) = "add" /\ PartOf(5) = "tables"
          /\ DoneThere(6) = "commit" /\ PartOf(6) = "tables"
      BY <1>2, <2>1 DEF DoneThere, PartOf, LooksAt, AddsAt, IndexesAt, CommitsAt
    <3>3. \A k \in 1 .. 6 : k = 1 \/ k = 2 \/ k = 3 \/ k = 4 \/ k = 5 \/ k = 6
      OBVIOUS
    <3> QED
      BY <3>1, <3>2, <3>3
  <2>3. \A k \in 7 .. 12 : FullStart[k].do = DoneThere(k) /\ FullStart[k].part = PartOf(k)
    <3>1. /\ FullStart[7].do = "look" /\ FullStart[7].part = "reports"
          /\ FullStart[8].do = "add" /\ FullStart[8].part = "reports"
          /\ FullStart[9].do = "add" /\ FullStart[9].part = "reports"
          /\ FullStart[10].do = "index" /\ FullStart[10].part = "reports"
          /\ FullStart[11].do = "commit" /\ FullStart[11].part = "reports"
          /\ FullStart[12].do = "hash" /\ FullStart[12].part = "tokens"
      BY <1>2, <2>1, Places DEF PlacesOfAll, PlacesElsewhere, Deed
    <3>2. /\ DoneThere(7) = "look" /\ PartOf(7) = "reports"
          /\ DoneThere(8) = "add" /\ PartOf(8) = "reports"
          /\ DoneThere(9) = "add" /\ PartOf(9) = "reports"
          /\ DoneThere(10) = "index" /\ PartOf(10) = "reports"
          /\ DoneThere(11) = "commit" /\ PartOf(11) = "reports"
          /\ DoneThere(12) = "hash" /\ PartOf(12) = "tokens"
      BY <1>2, <2>1 DEF DoneThere, PartOf, LooksAt, AddsAt, IndexesAt, CommitsAt
    <3>3. \A k \in 7 .. 12 : k = 7 \/ k = 8 \/ k = 9 \/ k = 10 \/ k = 11 \/ k = 12
      OBVIOUS
    <3> QED
      BY <3>1, <3>2, <3>3
  <2>4. \A k \in 13 .. 18 : FullStart[k].do = DoneThere(k) /\ FullStart[k].part = PartOf(k)
    <3>1. /\ FullStart[13].do = "reencrypt" /\ FullStart[13].part = "keys"
          /\ FullStart[14].do = "look" /\ FullStart[14].part = "legacy"
          /\ FullStart[15].do = "add" /\ FullStart[15].part = "legacy"
          /\ FullStart[16].do = "attach" /\ FullStart[16].part = "legacy"
          /\ FullStart[17].do = "index" /\ FullStart[17].part = "indexes"
          /\ FullStart[18].do = "look" /\ FullStart[18].part = "market"
      BY <1>2, <2>1, Places DEF PlacesOfAll, PlacesElsewhere, Deed
    <3>2. /\ DoneThere(13) = "reencrypt" /\ PartOf(13) = "keys"
          /\ DoneThere(14) = "look" /\ PartOf(14) = "legacy"
          /\ DoneThere(15) = "add" /\ PartOf(15) = "legacy"
          /\ DoneThere(16) = "attach" /\ PartOf(16) = "legacy"
          /\ DoneThere(17) = "index" /\ PartOf(17) = "indexes"
          /\ DoneThere(18) = "look" /\ PartOf(18) = "market"
      BY <1>2, <2>1 DEF DoneThere, PartOf, LooksAt, AddsAt, IndexesAt, CommitsAt
    <3>3. \A k \in 13 .. 18 : k = 13 \/ k = 14 \/ k = 15 \/ k = 16 \/ k = 17 \/ k = 18
      OBVIOUS
    <3> QED
      BY <3>1, <3>2, <3>3
  <2>5. \A k \in 19 .. 24 : FullStart[k].do = DoneThere(k) /\ FullStart[k].part = PartOf(k)
    <3>1. /\ FullStart[19].do = "add" /\ FullStart[19].part = "market"
          /\ FullStart[20].do = "commit" /\ FullStart[20].part = "market"
          /\ FullStart[21].do = "look" /\ FullStart[21].part = "factor"
          /\ FullStart[22].do = "add" /\ FullStart[22].part = "factor"
          /\ FullStart[23].do = "commit" /\ FullStart[23].part = "factor"
          /\ FullStart[24].do = "healthy" /\ FullStart[24].part = "market"
      BY <1>2, <2>1, Places DEF PlacesOfAll, PlacesElsewhere, Deed
    <3>2. /\ DoneThere(19) = "add" /\ PartOf(19) = "market"
          /\ DoneThere(20) = "commit" /\ PartOf(20) = "market"
          /\ DoneThere(21) = "look" /\ PartOf(21) = "factor"
          /\ DoneThere(22) = "add" /\ PartOf(22) = "factor"
          /\ DoneThere(23) = "commit" /\ PartOf(23) = "factor"
          /\ DoneThere(24) = "healthy" /\ PartOf(24) = "market"
      BY <1>2, <2>1 DEF DoneThere, PartOf, LooksAt, AddsAt, IndexesAt, CommitsAt
    <3>3. \A k \in 19 .. 24 : k = 19 \/ k = 20 \/ k = 21 \/ k = 22 \/ k = 23 \/ k = 24
      OBVIOUS
    <3> QED
      BY <3>1, <3>2, <3>3
  <2>6. \A k \in 25 .. 28 : FullStart[k].do = DoneThere(k) /\ FullStart[k].part = PartOf(k)
    <3>1. /\ FullStart[25].do = "look" /\ FullStart[25].part = "admin"
          /\ FullStart[26].do = "admin" /\ FullStart[26].part = "admin"
          /\ FullStart[27].do = "look" /\ FullStart[27].part = "plans"
          /\ FullStart[28].do = "add" /\ FullStart[28].part = "plans"
      BY <1>2, <2>1, Places DEF PlacesOfAll, PlacesElsewhere, Deed
    <3>2. /\ DoneThere(25) = "look" /\ PartOf(25) = "admin"
          /\ DoneThere(26) = "admin" /\ PartOf(26) = "admin"
          /\ DoneThere(27) = "look" /\ PartOf(27) = "plans"
          /\ DoneThere(28) = "add" /\ PartOf(28) = "plans"
      BY <1>2, <2>1 DEF DoneThere, PartOf, LooksAt, AddsAt, IndexesAt, CommitsAt
    <3>3. \A k \in 25 .. 28 : k = 25 \/ k = 26 \/ k = 27 \/ k = 28
      OBVIOUS
    <3> QED
      BY <3>1, <3>2, <3>3
  <2> QED
    <3> SUFFICES ASSUME NEW k \in 1 .. HealthyAt + 4 PROVE FullStart[k].do = DoneThere(k) /\ FullStart[k].part = PartOf(k)
      OBVIOUS
    <3>1. k \in 1 .. 6 \/ k \in 7 .. 12 \/ k \in 13 .. 18 \/ k \in 19 .. 24 \/ k \in 25 .. 28
      BY <2>1
    <3> QED
      BY <3>1, <2>2, <2>3, <2>4, <2>5, <2>6
<1> QED
  BY <1>1, <1>2

-----------------------------------------------------------------------------
(* What there is to say of the places.                                     *)

\* What the statement at a place is about.
On(k) == FullStart[k].on

\* What a failure may leave to another process: the columns and the index of the reports, the
\* columns of the users, the tokens, the secrets and the reports without a user.
Targets ==
    (IF Postgres THEN {} ELSE {8, 9, 10}) \union (IF Sqlite THEN {13, 15, 16, 18} ELSE {})
    \union {HashAt, HashAt + 1, HashAt + 3, HashAt + 4}

DoneAt(i) ==
    IF i = HashAt THEN token = "hashed" ELSE IF i = HashAt + 1 THEN secret = "custom"
    ELSE IF i = HashAt + 4 THEN ~orphans ELSE On(i) \in there

\* What keeps it from being done by anybody.
Excused(i) ==
    \/ i = HashAt /\ TokenColumns[1] \notin there
    \/ i = HashAt + 1 /\ LlmColumns[1] \notin there
    \/ i \in {HashAt + 3, HashAt + 4} /\ ~UsersReadable

\* A process that has met an error has left it to one that is still before it.
Between(a, b) == \E q \in Starters : a < line[q] /\ line[q] <= b
Owed(p, i) == skipped[p] /\ (died > 0 \/ Between(6, i))
NothingLost == \A p \in Starters : \A i \in Targets : line[p] > i => DoneAt(i) \/ Excused(i) \/ Owed(p, i)

\* The look s of a part, something that it adds at k, and a target i that is left out when that
\* fails.
Pair(s, k, i) ==
    \/ ~Postgres /\ s = 7 /\ k \in {8, 9} /\ i \in {9, 10} /\ k < i
    \/ Sqlite /\ s = 12 /\ k = 13 /\ i \in {15, 16}
    \/ Sqlite /\ s = 14 /\ k = 15 /\ i = 16
    \/ Sqlite /\ s = 17 /\ k = 18 /\ i = 19
    \/ s = HashAt + 2 /\ k = HashAt + 3 /\ i = HashAt + 4

\* Whoever will be beaten was beaten by one that goes on.
BeatenByOne ==
    died = 0 => \A p \in Starters : \A s, k, i \in 1 .. HealthyAt :
        Pair(s, k, i) /\ line[p] \in s + 1 .. k /\ On(k) \in there \ seen[p] => DoneAt(i) \/ Between(k, i)

\* What is seen is there, and no process is at a statement that has nothing to do.
SeenThere == \A p \in Starters : seen[p] \subseteq there \union {Occupied}
NotIdle ==
    \A p \in Starters : /\ line[p] \in AddsAt => On(line[p]) \notin seen[p]
                        /\ line[p] \in CommitsAt => Postgres

\* What is added and not committed, on PostgreSQL.
NewHeld ==
    \A p \in Starters :
        /\ ~Postgres \/ line[p] = 0 => held[p] = {} /\ ~aborted[p]
        /\ aborted[p] => line[p] = 11 /\ On(10) \in there
        /\ line[p] <= 6 /\ held[p] # {} => \E t \in All(Tables) : t \in held[p] /\ t \notin there
        /\ line[p] \in 7 .. 11 => held[p] \subseteq {On(8), On(9), On(10)}
        /\ line[p] > 11 => held[p] \subseteq Born(On(IndexAt + 2))
        /\ line[p] > 11 /\ On(IndexAt + 2) \in held[p] => FactorColumns[1] \in held[p]
HeldByOne ==
    \A p, q \in Starters : p # q /\ line[p] <= 6 /\ line[q] <= 6 /\ held[p] # {} => held[q] = {}

TablesBrought ==
    \A p \in Starters : /\ \A k \in 2 .. 5 : line[p] > k => On(k) \in there \union held[p]
                        /\ line[p] > 6 => All(Tables) \subseteq there
IndexesBrought ==
    \A p \in Starters : /\ line[p] > IndexAt => On(IndexAt) \in there
                        /\ Sqlite /\ line[p] > 24 => On(24) \in there
ReportsBrought ==
    Postgres => \A p \in Starters :
        /\ line[p] = 11 => aborted[p] \/ On(10) \in held[p]
        /\ line[p] > 11 => On(10) \in there
        /\ \A k \in {8, 9} : line[p] \in 8 .. 10 /\ On(k) \in there \ seen[p] => On(10) \in there
MarketBrought ==
    \A p \in Starters :
        /\ line[p] > IndexAt + 2 => On(IndexAt + 2) \in there \union held[p]
        /\ line[p] > IndexAt + 3 => On(IndexAt + 2) \in there
        /\ ~Sqlite /\ line[p] = IndexAt + 2 /\ On(IndexAt + 2) \in there \ seen[p] => FactorColumns[1] \in there
        /\ ~Sqlite /\ line[p] > 22 => FactorColumns[1] \in there \union held[p]
        /\ ~Sqlite /\ line[p] > 23 => FactorColumns[1] \in there
        /\ healthy[p] => On(IndexAt + 2) \in there
AdminBrought ==
    /\ astray => Admin \in there
    /\ \A p \in Starters :
        /\ line[p] = HealthyAt + 2 /\ astray => Admin \in seen[p]
        /\ line[p] > HealthyAt + 2 => Admin \in there /\ ~astray
        /\ line[p] > HealthyAt + 4 => Plans \in there

\* What a start ends with, and why not all do.
Hopeless == ~UsersReadable \/ (astray /\ holder = "after")
Beyond(k) == \E q \in Starters : line[q] > k
OneGoesOn ==
    died = 0 =>
        /\ \A p \in Starters :
            /\ \A k \in 2 .. 5 : line[p] \in 2 .. k /\ On(k) \in there \ seen[p] => Hopeless \/ Beyond(k)
            /\ line[p] = HealthyAt + 2 /\ Admin \in there \ seen[p] => Beyond(HealthyAt + 2)
            /\ line[p] = HealthyAt + 4 /\ Plans \in there \ seen[p] => Beyond(HealthyAt + 4)
        /\ (\E p \in Starters : skipped[p]) => Hopeless \/ Beyond(0)

\* The places in numbers.
LEMMA Numbers ==
    /\ Sqlite => HashAt = 19 /\ IndexAt = 25 /\ HealthyAt = 29 /\ ~Postgres
    /\ ~Sqlite => HashAt = 12 /\ IndexAt = 17 /\ HealthyAt = 24
BY DEF HashAt, IndexAt, HealthyAt, Sqlite, Postgres

\* What a process runs is the whole, or the part of it before the administrator.
LEMMA ScriptAt ==
    ASSUME StartTyped, NEW p \in Starters
    PROVE  /\ Len(Script(p)) \in {HealthyAt, HealthyAt + 4} /\ (p \in Apis => Len(Script(p)) = HealthyAt + 4)
           /\ DOMAIN Script(p) = 1 .. Len(Script(p))
           /\ \A k \in 1 .. Len(Script(p)) : Script(p)[k] = FullStart[k]
<1>1. engine \in Engines
  BY DEF StartTyped, StartTypeOK
<1>2. DOMAIN Script(p) = 1 .. Len(Script(p))
  BY <1>1, ScriptOf
<1>3. CASE p \in Apis
  BY <1>1, <1>2, <1>3, Places DEF Script, FullStart
<1>4. CASE p \notin Apis
  BY <1>1, <1>2, <1>4, Places DEF Script
<1> QED
  BY <1>3, <1>4

\* Where it is, and what it does there.
LEMMA WhereItIs ==
    ASSUME StartTyped, NEW p \in Starters
    PROVE  /\ line[p] \in 0 .. HealthyAt + 5 /\ (line[p] > HealthyAt + 1 => Len(Script(p)) = HealthyAt + 4)
           /\ Down(p) <=> line[p] = 0
           /\ Serves(p) => line[p] > HealthyAt
           /\ Serves(p) /\ p \in Apis => line[p] > HealthyAt + 4
           /\ ~Down(p) /\ ~Serves(p) => /\ line[p] \in 1 .. Len(Script(p)) /\ line[p] \in 1 .. HealthyAt + 4
                                        /\ Statement(p).do = DoneThere(line[p])
                                        /\ Statement(p).part = PartOf(line[p])
                                        /\ Statement(p).on = On(line[p])
<1>1. engine \in Engines /\ line[p] \in 0 .. (Len(Script(p)) + 1)
  BY DEF StartTyped, StartTypeOK
<1>2. /\ Len(Script(p)) \in {HealthyAt, HealthyAt + 4} /\ (p \in Apis => Len(Script(p)) = HealthyAt + 4)
      /\ \A k \in 1 .. Len(Script(p)) : Script(p)[k] = FullStart[k]
  BY ScriptAt
<1>3. HealthyAt \in Nat
  BY Numbers
<1>4. ASSUME ~Down(p), ~Serves(p)
      PROVE  /\ line[p] \in 1 .. Len(Script(p)) /\ line[p] \in 1 .. HealthyAt + 4
             /\ Statement(p) = FullStart[line[p]]
  <2>1. line[p] \in 1 .. Len(Script(p))
    BY <1>1, <1>2, <1>3, <1>4 DEF Down, Serves
  <2> QED
    BY <1>2, <1>3, <2>1 DEF Statement
<1>5. ~Down(p) /\ ~Serves(p) => /\ Statement(p).do = DoneThere(line[p]) /\ Statement(p).part = PartOf(line[p])
                                /\ Statement(p).on = On(line[p])
  BY <1>1, <1>4, DeedsPlaced DEF On
<1>6. /\ line[p] \in 0 .. HealthyAt + 5 /\ (line[p] > HealthyAt + 1 => Len(Script(p)) = HealthyAt + 4)
      /\ Serves(p) => line[p] > HealthyAt
      /\ Serves(p) /\ p \in Apis => line[p] > HealthyAt + 4
  BY <1>1, <1>2, <1>3 DEF Serves
<1> QED
  BY <1>4, <1>5, <1>6 DEF Down

\* Where a process goes on that fails: behind the part, or not at all.
EndOf(k) ==
    IF k <= 6 \/ k > HealthyAt THEN 0
    ELSE IF k <= 11 THEN 12 ELSE IF k <= 16 /\ Sqlite THEN 17 ELSE IF k <= HashAt THEN HashAt + 1
    ELSE IF k = HashAt + 1 THEN HashAt + 2 ELSE IF k <= HashAt + 4 THEN HashAt + 5
    ELSE IF k <= IndexAt THEN IndexAt + 1 ELSE IF k <= IndexAt + 3 \/ k = HealthyAt THEN HealthyAt + 1
    ELSE HealthyAt

\* The last statement of a part is the only one with another part behind it for good.
LEMMA PartEnds ==
    ASSUME NEW k \in 7 .. HealthyAt
    PROVE  /\ EndOf(k) \in k + 1 .. HealthyAt + 1 /\ PartOf(EndOf(k) - 1) = PartOf(k)
           /\ \A m \in EndOf(k) .. HealthyAt + 4 : PartOf(m) # PartOf(k)
           /\ EndOf(k) \notin AddsAt /\ EndOf(k) \notin CommitsAt
           /\ PartOf(k) \notin {"tables", "admin", "plans"}
<1>1. CASE Sqlite
  <2>1. HashAt = 19 /\ IndexAt = 25 /\ HealthyAt = 29
    BY <1>1, Numbers
  <2>2. EndOf(k) = IF k <= 11 THEN 12 ELSE IF k <= 16 THEN 17 ELSE IF k <= 19 THEN 20 ELSE IF k = 20 THEN 21
                   ELSE IF k <= 23 THEN 24 ELSE IF k <= 25 THEN 26 ELSE 30
    BY <1>1, <2>1 DEF EndOf
  <2>3. EndOf(k) \in k + 1 .. HealthyAt + 1 /\ PartOf(EndOf(k) - 1) = PartOf(k)
    BY <1>1, <2>1, <2>2 DEF PartOf
  <2>4. \A m \in EndOf(k) .. HealthyAt + 4 : PartOf(m) # PartOf(k)
    BY <1>1, <2>1, <2>2 DEF PartOf
  <2>5. EndOf(k) \notin AddsAt /\ EndOf(k) \notin CommitsAt
    BY <1>1, <2>1, <2>2 DEF AddsAt, CommitsAt
  <2>6. PartOf(k) \notin {"tables", "admin", "plans"}
    BY <1>1, <2>1 DEF PartOf
  <2> QED
    BY <2>3, <2>4, <2>5, <2>6
<1>2. CASE ~Sqlite
  <2>1. HashAt = 12 /\ IndexAt = 17 /\ HealthyAt = 24
    BY <1>2, Numbers
  <2>2. EndOf(k) = IF k <= 11 THEN 12 ELSE IF k <= 12 THEN 13 ELSE IF k = 13 THEN 14
                   ELSE IF k <= 16 THEN 17 ELSE IF k <= 17 THEN 18 ELSE IF k <= 20 \/ k = 24 THEN 25 ELSE 24
    BY <1>2, <2>1 DEF EndOf
  <2>3. EndOf(k) \in k + 1 .. HealthyAt + 1 /\ PartOf(EndOf(k) - 1) = PartOf(k)
    BY <1>2, <2>1, <2>2 DEF PartOf
  <2>4. \A m \in EndOf(k) .. HealthyAt + 4 : PartOf(m) # PartOf(k)
    BY <1>2, <2>1, <2>2 DEF PartOf
  <2>5. EndOf(k) \notin AddsAt /\ EndOf(k) \notin CommitsAt
    BY <1>2, <2>1, <2>2 DEF AddsAt, CommitsAt
  <2>6. PartOf(k) \notin {"tables", "admin", "plans"}
    BY <1>2, <2>1 DEF PartOf
  <2> QED
    BY <2>3, <2>4, <2>5, <2>6
<1> QED
  BY <1>1, <1>2

\* The deeds tell the places apart.
LEMMA DeedsTell ==
    ASSUME NEW k \in 1 .. HealthyAt + 4
    PROVE  /\ DoneThere(k) = "look" <=> k \in LooksAt
           /\ DoneThere(k) = "add" <=> k \in AddsAt
           /\ DoneThere(k) = "index" <=> k \in IndexesAt
           /\ DoneThere(k) = "commit" <=> k \in CommitsAt
           /\ DoneThere(k) = "hash" <=> k = HashAt
           /\ DoneThere(k) = "reencrypt" <=> k = HashAt + 1
           /\ DoneThere(k) = "attach" <=> k = HashAt + 4
           /\ DoneThere(k) = "healthy" <=> k = HealthyAt
           /\ DoneThere(k) = "admin" <=> k = HealthyAt + 2
<1>1. CASE Sqlite
  <2>1. HashAt = 19 /\ IndexAt = 25 /\ HealthyAt = 29
    BY <1>1, Numbers
  <2>2. DoneThere(k) = "look" <=> k \in LooksAt
    BY <1>1, <2>1 DEF DoneThere, LooksAt, AddsAt, IndexesAt, CommitsAt
  <2>3. DoneThere(k) = "add" <=> k \in AddsAt
    BY <1>1, <2>1 DEF DoneThere, LooksAt, AddsAt, IndexesAt, CommitsAt
  <2>4. DoneThere(k) = "index" <=> k \in IndexesAt
    BY <1>1, <2>1 DEF DoneThere, LooksAt, AddsAt, IndexesAt, CommitsAt
  <2>5. DoneThere(k) = "commit" <=> k \in CommitsAt
    BY <1>1, <2>1 DEF DoneThere, LooksAt, AddsAt, IndexesAt, CommitsAt
  <2>6. DoneThere(k) = "hash" <=> k = HashAt
    BY <1>1, <2>1 DEF DoneThere, LooksAt, AddsAt, IndexesAt, CommitsAt
  <2>7. DoneThere(k) = "reencrypt" <=> k = HashAt + 1
    BY <1>1, <2>1 DEF DoneThere, LooksAt, AddsAt, IndexesAt, CommitsAt
  <2>8. DoneThere(k) = "attach" <=> k = HashAt + 4
    BY <1>1, <2>1 DEF DoneThere, LooksAt, AddsAt, IndexesAt, CommitsAt
  <2>9. DoneThere(k) = "healthy" <=> k = HealthyAt
    BY <1>1, <2>1 DEF DoneThere, LooksAt, AddsAt, IndexesAt, CommitsAt
  <2>10. DoneThere(k) = "admin" <=> k = HealthyAt + 2
    BY <1>1, <2>1 DEF DoneThere, LooksAt, AddsAt, IndexesAt, CommitsAt
  <2> QED
    BY <2>2, <2>3, <2>4, <2>5, <2>6, <2>7, <2>8, <2>9, <2>10
<1>2. CASE ~Sqlite
  <2>1. HashAt = 12 /\ IndexAt = 17 /\ HealthyAt = 24
    BY <1>2, Numbers
  <2>2. DoneThere(k) = "look" <=> k \in LooksAt
    BY <1>2, <2>1 DEF DoneThere, LooksAt, AddsAt, IndexesAt, CommitsAt
  <2>3. DoneThere(k) = "add" <=> k \in AddsAt
    BY <1>2, <2>1 DEF DoneThere, LooksAt, AddsAt, IndexesAt, CommitsAt
  <2>4. DoneThere(k) = "index" <=> k \in IndexesAt
    BY <1>2, <2>1 DEF DoneThere, LooksAt, AddsAt, IndexesAt, CommitsAt
  <2>5. DoneThere(k) = "commit" <=> k \in CommitsAt
    BY <1>2, <2>1 DEF DoneThere, LooksAt, AddsAt, IndexesAt, CommitsAt
  <2>6. DoneThere(k) = "hash" <=> k = HashAt
    BY <1>2, <2>1 DEF DoneThere, LooksAt, AddsAt, IndexesAt, CommitsAt
  <2>7. DoneThere(k) = "reencrypt" <=> k = HashAt + 1
    BY <1>2, <2>1 DEF DoneThere, LooksAt, AddsAt, IndexesAt, CommitsAt
  <2>8. DoneThere(k) = "attach" <=> k = HashAt + 4
    BY <1>2, <2>1 DEF DoneThere, LooksAt, AddsAt, IndexesAt, CommitsAt
  <2>9. DoneThere(k) = "healthy" <=> k = HealthyAt
    BY <1>2, <2>1 DEF DoneThere, LooksAt, AddsAt, IndexesAt, CommitsAt
  <2>10. DoneThere(k) = "admin" <=> k = HealthyAt + 2
    BY <1>2, <2>1 DEF DoneThere, LooksAt, AddsAt, IndexesAt, CommitsAt
  <2> QED
    BY <2>2, <2>3, <2>4, <2>5, <2>6, <2>7, <2>8, <2>9, <2>10
<1> QED
  BY <1>1, <1>2

-----------------------------------------------------------------------------
(* What one step of a start does, by the place it is taken at.             *)

\* Nobody else moves.
Alone(p) ==
    /\ engine' = engine
    /\ \A q \in Starters : q # p => /\ line'[q] = line[q] /\ seen'[q] = seen[q] /\ held'[q] = held[q]
                                    /\ aborted'[q] = aborted[q] /\ healthy'[q] = healthy[q] /\ skipped'[q] = skipped[q]

Begins(p) ==
    /\ line[p] = 0 /\ line'[p] = 1 /\ ~healthy'[p] /\ ~skipped'[p]
    /\ seen'[p] = seen[p] /\ held'[p] = held[p] /\ aborted'[p] = aborted[p]
    /\ there' = there /\ dataVars' = dataVars /\ died' = died

Drops(p) ==
    /\ line'[p] = 0 /\ seen'[p] = {} /\ held'[p] = {} /\ ~aborted'[p]
    /\ healthy'[p] = healthy[p] /\ skipped'[p] = skipped[p]
    /\ there' = there /\ dataVars' = dataVars /\ died' = died + 1

\* Why a process fails at a place.
Beaten(p) == line[p] \in AddsAt /\ On(line[p]) \in there /\ On(line[p]) \notin seen[p]
Unreadable(p) == line[p] \in {HashAt + 2, HealthyAt + 1} /\ ~UsersReadable
Unhashed(p) == line[p] = HashAt /\ token = "plain" /\ TokenColumns[1] \notin there
Uncovered(p) == line[p] = HashAt + 1 /\ LlmColumns[1] \notin there
AdminTaken(p) ==
    /\ line[p] = HealthyAt + 2
    /\ (Admin \in seen[p] /\ astray /\ holder = "after") \/ (Admin \notin seen[p] /\ Admin \in there)

Falls(p) ==
    /\ line[p] \in 1 .. HealthyAt + 4
    /\ line'[p] = EndOf(line[p]) /\ seen'[p] = {} /\ held'[p] = {} /\ ~aborted'[p] /\ skipped'[p]
    /\ healthy'[p] = healthy[p] /\ there' = there /\ dataVars' = dataVars /\ died' = died
    /\ Beaten(p) \/ Unreadable(p) \/ Unhashed(p) \/ Uncovered(p) \/ AdminTaken(p)

\* On to the next statement with something to do.
Finds(p) ==
    IF line[p] \notin LooksAt THEN seen[p]
    ELSE {x \in seen[p] : x[1] # On(line[p])[1]}
         \union {x \in there \union (IF holder # "none" THEN {Occupied} ELSE {}) : x[1] = On(line[p])[1]}
HasNone(m, found) == (m \in AddsAt /\ On(m) \in found) \/ (m \in CommitsAt /\ ~Postgres)
MovesUp(p) ==
    /\ line[p] \in 1 .. HealthyAt + 4 /\ line'[p] \in line[p] + 1 .. HealthyAt + 5
    /\ seen'[p] = IF line[p] < HealthyAt + 4 /\ PartOf(line[p] + 1) = PartOf(line[p]) THEN Finds(p) ELSE {}
    /\ ~HasNone(line'[p], seen'[p])
    /\ \A m \in line[p] + 1 .. line'[p] - 1 : HasNone(m, seen'[p])
    /\ skipped'[p] = skipped[p] /\ died' = died

\* What it does before.
Delays(k) == Postgres /\ On(k)[1] # "row"
Keeps(p) == held'[p] = held[p] /\ aborted'[p] = aborted[p]
DidLook(p) == line[p] \in LooksAt /\ there' = there /\ dataVars' = dataVars /\ Keeps(p)
DidAdd(p) ==
    /\ line[p] \in AddsAt /\ On(line[p]) \notin there /\ dataVars' = dataVars /\ aborted'[p] = aborted[p]
    /\ IF Delays(line[p])
       THEN /\ there' = there /\ held'[p] = held[p] \union Born(On(line[p]))
            /\ \A q \in Starters : q # p /\ line[p] <= 6 /\ line[q] \in 1 .. 6 => held[q] = {}
       ELSE there' = there \union Born(On(line[p])) /\ held'[p] = held[p]
DidIndex(p) ==
    /\ line[p] \in IndexesAt /\ dataVars' = dataVars
    /\ IF Postgres /\ line[p] = 10
       THEN /\ there' = there /\ held'[p] = held[p] \union {On(10)}
            /\ aborted'[p] = (aborted[p] \/ On(10) \in there)
       ELSE there' = there \union {On(line[p])} /\ Keeps(p)
DidCommit(p) ==
    /\ line[p] \in CommitsAt /\ dataVars' = dataVars
    /\ there' = there \union (IF aborted[p] THEN {} ELSE held[p]) /\ held'[p] = {} /\ ~aborted'[p]
DidData(p) ==
    /\ there' = there /\ Keeps(p) /\ astray' = astray /\ holder' = holder
    /\ \/ line[p] = HashAt /\ token' = "hashed" /\ secret' = secret /\ orphans' = orphans
       \/ line[p] = HashAt + 1 /\ secret' = "custom" /\ token' = token /\ orphans' = orphans
       \/ line[p] = HashAt + 4 /\ ~orphans' /\ token' = token /\ secret' = secret
       \/ line[p] = HealthyAt /\ orphans' = orphans /\ token' = token /\ secret' = secret
DidAdmin(p) ==
    /\ line[p] = HealthyAt + 2 /\ Keeps(p) /\ orphans' = orphans /\ token' = token /\ secret' = secret
    /\ \/ /\ Admin \in seen[p] /\ ~(astray /\ holder = "after") /\ ~astray' /\ there' = there
          /\ holder' = IF astray THEN "none" ELSE holder
       \/ Admin \notin seen[p] /\ astray' = astray /\ holder' = "none" /\ there' = there \union {Admin}
Advances(p) ==
    /\ MovesUp(p) /\ healthy'[p] = (healthy[p] \/ line[p] = HealthyAt)
    /\ DidLook(p) \/ DidAdd(p) \/ DidIndex(p) \/ DidCommit(p) \/ DidData(p) \/ DidAdmin(p)

Step(p) == Alone(p) /\ (Begins(p) \/ Drops(p) \/ Falls(p) \/ Advances(p))

\* Where it moves on to, and what it takes along.
LEMMA MovesByPlace ==
    ASSUME StartTyped, NEW p \in Starters, ~Down(p), ~Serves(p), UNCHANGED engine, NEW found,
           MoveOn(p, line[p] + 1, found), found = Finds(p), skipped' = skipped, died' = died
    PROVE  /\ MovesUp(p)
           /\ \A q \in Starters : q # p => line'[q] = line[q] /\ seen'[q] = seen[q]
<1> DEFINE n == Len(Script(p))
           l == line[p]
           to == line'[p]
           keeps == IF l + 1 \in DOMAIN Script(p) /\ Script(p)[l + 1].part = Statement(p).part THEN found ELSE {}
<1>1. /\ engine \in Engines /\ line = [q \in Starters |-> line[q]] /\ seen = [q \in Starters |-> seen[q]]
  BY DEF StartTyped, StartTypeOK
<1>2. /\ l \in 1 .. n /\ l \in 1 .. HealthyAt + 4 /\ n \in {HealthyAt, HealthyAt + 4}
      /\ Statement(p).part = PartOf(l) /\ DOMAIN Script(p) = 1 .. n /\ HealthyAt \in {29, 24}
      /\ \A k \in 1 .. n : Script(p)[k] = FullStart[k]
  BY ScriptAt, WhereItIs, Numbers
<1>3. \A k \in 1 .. n : k \in 1 .. HealthyAt + 4
  <2> HIDE DEF n
  <2> QED
    BY <1>2
<1>4. \A k \in 1 .. n : Script(p)[k].part = PartOf(k) /\ Script(p)[k].on = On(k) /\ Script(p)[k].do = DoneThere(k)
  BY <1>1, <1>2, <1>3, DeedsPlaced DEF On
<1>5. \A s : \A k \in 1 .. n : Idle(Script(p)[k], s) <=> HasNone(k, s)
  <2> TAKE s
  <2> TAKE k \in 1 .. n
  <2>1. Script(p)[k].on = On(k) /\ (Script(p)[k].do = "add" <=> k \in AddsAt) /\ (Script(p)[k].do = "commit" <=> k \in CommitsAt)
    BY <1>3, <1>4, DeedsTell
  <2> QED
    BY <2>1 DEF Idle, HasNone, Postgres
<1>6. /\ seen' = [seen EXCEPT ![p] = keeps] /\ line' = [line EXCEPT ![p] = to]
      /\ to \in l + 1 .. n + 1 /\ ~(to \in DOMAIN Script(p) /\ Idle(Script(p)[to], keeps))
      /\ \A m \in l + 1 .. to - 1 : Idle(Script(p)[m], keeps)
  <2>1. l + 1 \in 1 .. n + 1
    <3> HIDE DEF n, l
    <3> QED
      BY <1>2
  <2> QED
    BY <1>1, <2>1, MovesTo
<1>7. seen'[p] = keeps /\ \A q \in Starters : q # p => line'[q] = line[q] /\ seen'[q] = seen[q]
  <2> HIDE DEF keeps, to
  <2> QED
    BY <1>1, <1>6
<1> HIDE DEF n, l, to
<1>8. keeps = IF l < HealthyAt + 4 /\ PartOf(l + 1) = PartOf(l) THEN Finds(p) ELSE {}
  <2>1. CASE l < n
    <3>1. l + 1 \in 1 .. n /\ l < HealthyAt + 4
      BY <1>2, <2>1
    <3> QED
      BY <1>2, <1>4, <3>1 DEF keeps
  <2>2. CASE l = n
    <3>1. l + 1 \notin DOMAIN Script(p)
      BY <1>2, <2>2
    <3>2. l = HealthyAt + 4 \/ l = HealthyAt
      BY <1>2, <2>2
    <3>3. PartOf(HealthyAt + 1) # PartOf(HealthyAt)
      <4>1. CASE Sqlite
        BY <4>1, Numbers DEF PartOf
      <4>2. CASE ~Sqlite
        BY <4>2, Numbers DEF PartOf
      <4> QED
        BY <4>1, <4>2
    <3>4. ~(l < HealthyAt + 4) \/ PartOf(l + 1) # PartOf(l)
      BY <1>2, <3>2, <3>3
    <3> QED
      BY <3>1, <3>4 DEF keeps
  <2> QED
    BY <1>2, <2>1, <2>2
<1>9. ~HasNone(to, keeps)
  <2>1. CASE to \in 1 .. n
    BY <1>2, <1>5, <1>6, <2>1
  <2>2. CASE to = n + 1
    <3>1. to \notin AddsAt /\ to \notin CommitsAt
      BY <1>2, <2>2, Numbers DEF AddsAt, CommitsAt
    <3> QED
      BY <3>1 DEF HasNone
  <2> QED
    BY <1>2, <1>6, <2>1, <2>2
<1>10. \A m \in l + 1 .. to - 1 : HasNone(m, keeps)
  <2> TAKE m \in l + 1 .. to - 1
  <2>1. m \in 1 .. n
    BY <1>2, <1>6
  <2> QED
    BY <1>5, <1>6, <2>1
<1>11. to \in l + 1 .. HealthyAt + 5
  BY <1>2, <1>6
<1> HIDE DEF keeps
<1> QED
  BY <1>2, <1>7, <1>8, <1>9, <1>10, <1>11 DEF MovesUp, l, to

\* The part that ends behind a place is found by its last statement.
LEMMA EndFound ==
    ASSUME NEW n \in {HealthyAt, HealthyAt + 4}, NEW k \in 7 .. HealthyAt, NEW e \in k + 1 .. n + 1,
           PartOf(e - 1) = PartOf(k), \A m \in e .. n : PartOf(m) # PartOf(k)
    PROVE  e = EndOf(k)
<1> DEFINE f == EndOf(k)
<1>1. /\ f \in k + 1 .. HealthyAt + 1 /\ PartOf(f - 1) = PartOf(k)
      /\ \A m \in f .. HealthyAt + 4 : PartOf(m) # PartOf(k)
  BY PartEnds
<1>2. HealthyAt \in {24, 29}
  BY Numbers
<1> HIDE DEF f
<1>3. ~(e < f)
  <2> SUFFICES ASSUME e < f PROVE FALSE
    OBVIOUS
  <2>1. f - 1 \in e .. n
    BY <1>1, <1>2
  <2> QED
    BY <1>1, <2>1
<1>4. ~(e > f)
  <2> SUFFICES ASSUME e > f PROVE FALSE
    OBVIOUS
  <2>1. e - 1 \in f .. HealthyAt + 4
    BY <1>1, <1>2
  <2> QED
    BY <1>1, <2>1
<1> QED
  BY <1>1, <1>2, <1>3, <1>4 DEF f

\* Where a process is that has failed, and what it has lost.
LEMMA FallsByPlace ==
    ASSUME StartTyped, NEW p \in Starters, ~Down(p), ~Serves(p), UNCHANGED engine, Fails(p)
    PROVE  /\ line'[p] = EndOf(line[p]) /\ seen'[p] = {} /\ held'[p] = {} /\ ~aborted'[p] /\ skipped'[p]
           /\ \A q \in Starters : q # p => /\ line'[q] = line[q] /\ seen'[q] = seen[q] /\ held'[q] = held[q]
                                           /\ aborted'[q] = aborted[q] /\ skipped'[q] = skipped[q]
<1> DEFINE n == Len(Script(p))
           l == line[p]
<1>1. /\ engine \in Engines /\ line = [q \in Starters |-> line[q]] /\ seen = [q \in Starters |-> seen[q]]
      /\ held = [q \in Starters |-> held[q]] /\ aborted = [q \in Starters |-> aborted[q]]
      /\ skipped \in [Starters -> BOOLEAN]
  BY DEF StartTyped, StartTypeOK
<1>2. /\ l \in 1 .. n /\ l \in 1 .. HealthyAt + 4 /\ n \in {HealthyAt, HealthyAt + 4}
      /\ Statement(p).part = PartOf(l) /\ DOMAIN Script(p) = 1 .. n /\ HealthyAt \in {29, 24}
      /\ \A k \in 1 .. n : Script(p)[k] = FullStart[k]
  BY ScriptAt, WhereItIs, Numbers
<1>3. held' = [held EXCEPT ![p] = {}] /\ aborted' = [aborted EXCEPT ![p] = FALSE]
      /\ skipped' = [skipped EXCEPT ![p] = TRUE]
  BY DEF Fails
<1>4. /\ held'[p] = {} /\ ~aborted'[p] /\ skipped'[p]
      /\ \A q \in Starters : q # p => held'[q] = held[q] /\ aborted'[q] = aborted[q] /\ skipped'[q] = skipped[q]
  BY <1>1, <1>3
<1>5. CASE l <= 6 \/ l > HealthyAt
  <2>1. PartOf(l) \in {"tables", "admin", "plans"} /\ EndOf(l) = 0
    <3>1. CASE Sqlite
      BY <1>2, <1>5, <3>1, Numbers DEF PartOf, EndOf
    <3>2. CASE ~Sqlite
      BY <1>2, <1>5, <3>2, Numbers DEF PartOf, EndOf
    <3> QED
      BY <3>1, <3>2
  <2>2. line' = [line EXCEPT ![p] = 0] /\ seen' = [seen EXCEPT ![p] = {}]
    BY <1>2, <2>1 DEF Fails
  <2>3. line'[p] = 0 /\ seen'[p] = {} /\ \A q \in Starters : q # p => line'[q] = line[q] /\ seen'[q] = seen[q]
    BY <1>1, <2>2
  <2> QED
    BY <1>4, <2>1, <2>3
<1>6. CASE ~(l <= 6 \/ l > HealthyAt)
  <2>0. l \in 1 .. HealthyAt + 4 /\ HealthyAt \in {29, 24}
    BY <1>2
  <2>1. l \in 7 .. HealthyAt
    BY <1>6, <2>0
  <2>2. /\ EndOf(l) \in l + 1 .. HealthyAt + 1 /\ EndOf(l) \notin AddsAt /\ EndOf(l) \notin CommitsAt
        /\ PartOf(l) \notin {"tables", "admin", "plans"}
    BY <2>1, PartEnds
  <2> DEFINE e == AfterPart(Script(p), Statement(p).part)
             to == line'[p]
             keeps == IF e \in DOMAIN Script(p) /\ Script(p)[e].part = Statement(p).part THEN {} ELSE {}
  <2>3. MoveOn(p, e, {})
    BY <1>2, <2>2 DEF Fails
  <2>4. /\ e \in l + 1 .. n + 1 /\ Script(p)[e - 1].part = PartOf(l)
        /\ \A m \in e .. n : Script(p)[m].part # PartOf(l)
    <3>1. l \in DOMAIN Script(p) /\ Statement(p).part = Script(p)[l].part
      BY <1>2 DEF Statement
    <3>2. LET k == AfterPart(Script(p), Script(p)[l].part)
          IN  /\ k \in l + 1 .. n + 1 /\ Script(p)[k - 1].part = Script(p)[l].part
              /\ \A m \in k .. n : Script(p)[m].part # Script(p)[l].part
      <4> HIDE DEF l
      <4> QED
        BY <1>1, <3>1, PlaceAfter
    <3> QED
      BY <1>2, <3>1, <3>2
  <2> HIDE DEF e
  <2>5. \A k \in 1 .. n : Script(p)[k].part = PartOf(k) /\ Script(p)[k].do = DoneThere(k)
    <3> HIDE DEF n
    <3>1. \A k \in 1 .. n : k \in 1 .. HealthyAt + 4
      BY <1>2
    <3> QED
      BY <1>1, <1>2, <3>1, DeedsPlaced
  <2>6. e = EndOf(l)
    <3> HIDE DEF n, l
    <3>1. e - 1 \in 1 .. n /\ \A m \in e .. n : m \in 1 .. n
      BY <1>2, <2>4
    <3>2. PartOf(e - 1) = PartOf(l) /\ \A m \in e .. n : PartOf(m) # PartOf(l)
      BY <2>4, <2>5, <3>1
    <3> QED
      BY <1>2, <2>1, <2>4, <3>2, EndFound
  <2>7. e \in 1 .. n + 1
    <3> HIDE DEF n, l
    <3> QED
      BY <1>2, <2>4
  <2>8. /\ seen' = [seen EXCEPT ![p] = keeps] /\ line' = [line EXCEPT ![p] = to]
        /\ to \in e .. n + 1 /\ \A m \in e .. to - 1 : Idle(Script(p)[m], keeps)
    BY <1>1, <2>3, <2>7, MovesTo
  <2>9. keeps = {}
    OBVIOUS
  <2> HIDE DEF keeps, to
  <2>10. /\ seen'[p] = {} /\ \A q \in Starters : q # p => line'[q] = line[q] /\ seen'[q] = seen[q]
    BY <1>1, <2>8, <2>9
  <2>11. to = e
    <3> SUFFICES ASSUME to # e PROVE FALSE
      OBVIOUS
    <3> HIDE DEF n, l
    <3>1. e \in e .. to - 1 /\ e \in 1 .. n /\ e \in 1 .. HealthyAt + 4
      BY <1>2, <2>4, <2>8
    <3>2. Idle(Script(p)[e], {}) /\ Script(p)[e].do = DoneThere(e)
      BY <2>5, <2>8, <2>9, <3>1
    <3>3. DoneThere(e) = "commit" \/ DoneThere(e) = "add"
      BY <3>2 DEF Idle
    <3> QED
      BY <2>2, <2>6, <3>1, <3>3, DeedsTell
  <2> QED
    BY <1>4, <2>6, <2>10, <2>11 DEF to
<1> QED
  BY <1>5, <1>6

\* Each statement does what is said of its place.
LEMMA StepByPlace ==
    ASSUME StartTyped, NotIdle, NEW p \in Starters, Starts(p) \/ StartStep(p) \/ Dies(p)
    PROVE  Step(p)
<1> DEFINE l == line[p]
           Runs == ~Down(p) /\ ~Serves(p)
           Rest(h, a, s) == /\ h = [q \in Starters |-> h[q]] /\ a = [q \in Starters |-> a[q]]
                            /\ s \in [Starters -> BOOLEAN]
           Goes(found) == MoveOn(p, line[p] + 1, found)
           Keep == held' = held /\ aborted' = aborted
           Others == \A q \in Starters : q # p => line'[q] = line[q] /\ seen'[q] = seen[q]
           Apart == \A q \in Starters : q # p => held'[q] = held[q] /\ aborted'[q] = aborted[q]
<1>0. /\ engine \in Engines /\ line = [q \in Starters |-> line[q]] /\ seen = [q \in Starters |-> seen[q]]
      /\ held = [q \in Starters |-> held[q]] /\ aborted = [q \in Starters |-> aborted[q]]
      /\ skipped \in [Starters -> BOOLEAN] /\ healthy \in [Starters -> BOOLEAN] /\ died \in Nat
      /\ token \in {"plain", "hashed"}
  BY StartupAssumption DEF StartTyped, StartTypeOK
<1>1. Runs => /\ l \in 1 .. HealthyAt + 4 /\ Statement(p).do = DoneThere(l) /\ Statement(p).part = PartOf(l)
              /\ Statement(p).on = On(l)
  BY WhereItIs
<1>2. \A do : At(p, do) => Runs /\ DoneThere(l) = do
  BY <1>1 DEF At
<1> DEFINE Fell == Fails(p) /\ UNCHANGED <<there, dataVars, healthy, died>>
           Why == Beaten(p) \/ Unreadable(p) \/ Unhashed(p) \/ Uncovered(p) \/ AdminTaken(p)
<1>3. ASSUME Runs, engine' = engine, Fell, Why PROVE Step(p)
  <2>1. /\ line'[p] = EndOf(line[p]) /\ seen'[p] = {} /\ held'[p] = {} /\ ~aborted'[p] /\ skipped'[p]
        /\ \A q \in Starters : q # p => /\ line'[q] = line[q] /\ seen'[q] = seen[q] /\ held'[q] = held[q]
                                        /\ aborted'[q] = aborted[q] /\ skipped'[q] = skipped[q]
    BY <1>3, FallsByPlace
  <2>2. healthy' = healthy /\ there' = there /\ dataVars' = dataVars /\ died' = died
    BY <1>3
  <2>3. Falls(p)
    BY <1>1, <1>3, <2>1, <2>2 DEF Falls
  <2>4. Alone(p)
    BY <1>3, <2>1, <2>2 DEF Alone
  <2> QED
    BY <2>3, <2>4 DEF Step
<1> DEFINE Did == DidLook(p) \/ DidAdd(p) \/ DidIndex(p) \/ DidCommit(p) \/ DidData(p) \/ DidAdmin(p)
           Checked == /\ healthy'[p] = (healthy[p] \/ line[p] = HealthyAt)
                      /\ \A q \in Starters : q # p => healthy'[q] = healthy[q]
<1>4. ASSUME Runs, engine' = engine, skipped' = skipped, died' = died, Goes(Finds(p)), Apart, Checked, Did
      PROVE  Step(p)
  <2>1. MovesUp(p) /\ Others
    BY <1>4, MovesByPlace
  <2>2. Advances(p)
    BY <1>4, <2>1 DEF Advances
  <2>3. Alone(p)
    BY <1>4, <2>1 DEF Alone
  <2> QED
    BY <2>2, <2>3 DEF Step
<1>5. ASSUME Through(p), l \notin LooksAt PROVE Goes(Finds(p))
  BY <1>5 DEF Through, Finds
<1>6. ASSUME held' = held, aborted' = aborted PROVE Apart /\ Keeps(p)
  BY <1>6 DEF Keeps
<1>7. ASSUME healthy' = healthy, Runs, l # HealthyAt PROVE Checked
  <2>1. healthy[p] \in BOOLEAN
    BY <1>0
  <2> QED
    BY <1>7, <2>1
<1>8. /\ l \in LooksAt \/ l \in AddsAt \/ l \in IndexesAt \/ l \in CommitsAt \/ l = HealthyAt + 2 \/ l = HashAt
         \/ l = HashAt + 1 \/ l = HashAt + 4 => l # HealthyAt
      /\ l \in AddsAt \/ l \in IndexesAt \/ l \in CommitsAt \/ l = HealthyAt + 2 \/ l = HashAt
         \/ l = HashAt + 1 \/ l = HashAt + 4 \/ l = HealthyAt => l \notin LooksAt
  <2>1. CASE Sqlite
    BY <2>1, Numbers DEF LooksAt, AddsAt, IndexesAt, CommitsAt
  <2>2. CASE ~Sqlite
    BY <2>2, Numbers DEF LooksAt, AddsAt, IndexesAt, CommitsAt
  <2> QED
    BY <2>1, <2>2
<1>9. CASE Starts(p)
  <2>1. /\ line[p] = 0 /\ line' = [line EXCEPT ![p] = 1] /\ healthy' = [healthy EXCEPT ![p] = FALSE]
        /\ skipped' = [skipped EXCEPT ![p] = FALSE]
        /\ UNCHANGED <<engine, there, dataVars, seen, held, aborted, died>>
    BY <1>9 DEF Starts, Down
  <2>2. line'[p] = 1 /\ ~healthy'[p] /\ ~skipped'[p]
        /\ \A q \in Starters : q # p => line'[q] = line[q] /\ healthy'[q] = healthy[q] /\ skipped'[q] = skipped[q]
    BY <1>0, <2>1
  <2> QED
    BY <2>1, <2>2 DEF Step, Alone, Begins
<1>10. CASE Dies(p)
  <2>1. /\ line' = [line EXCEPT ![p] = 0] /\ seen' = [seen EXCEPT ![p] = {}] /\ died' = died + 1
        /\ held' = [held EXCEPT ![p] = {}] /\ aborted' = [aborted EXCEPT ![p] = FALSE]
        /\ UNCHANGED <<engine, there, dataVars, healthy, skipped>>
    BY <1>10 DEF Dies
  <2>2. line'[p] = 0 /\ seen'[p] = {} /\ held'[p] = {} /\ ~aborted'[p]
        /\ \A q \in Starters : q # p => /\ line'[q] = line[q] /\ seen'[q] = seen[q] /\ held'[q] = held[q]
                                        /\ aborted'[q] = aborted[q]
    BY <1>0, <2>1
  <2> QED
    BY <2>1, <2>2 DEF Step, Alone, Drops
<1>11. CASE Look(p)
  <2>1. Runs /\ l \in LooksAt /\ UNCHANGED <<engine, there, dataVars, healthy, died>>
    BY <1>1, <1>2, <1>11, DeedsTell DEF Look
  <2>2. CASE Fails(p) /\ Statement(p).part \in {"legacy", "admin"} /\ ~UsersReadable
    <3>1. PartOf(l) \in {"legacy", "admin"}
      BY <1>1, <2>1, <2>2
    <3>2. l \in {HashAt + 2, HealthyAt + 1}
      <4>1. CASE Sqlite
        BY <1>1, <2>1, <3>1, <4>1, Numbers DEF LooksAt, PartOf
      <4>2. CASE ~Sqlite
        BY <1>1, <2>1, <3>1, <4>2, Numbers DEF LooksAt, PartOf
      <4> QED
        BY <4>1, <4>2
    <3>3. Unreadable(p)
      BY <2>2, <3>2 DEF Unreadable
    <3> QED
      BY <1>3, <2>1, <2>2, <3>3
  <2> DEFINE kind == Statement(p).on[1]
             rows == there \union (IF holder # "none" THEN {Occupied} ELSE {})
             found == {x \in seen[p] : x[1] # kind} \union {x \in rows : x[1] = kind}
  <2>3. CASE Goes(found) /\ UNCHANGED <<held, aborted, skipped>>
    <3>1. found = Finds(p)
      BY <1>1, <2>1 DEF Finds
    <3> HIDE DEF found
    <3>2. Apart /\ Checked /\ DidLook(p)
      BY <1>6, <1>7, <1>8, <2>1, <2>3 DEF DidLook
    <3> QED
      BY <1>4, <2>1, <2>3, <3>1, <3>2
  <2> QED
    BY <1>11, <2>2, <2>3 DEF Look
<1>12. CASE Adds(p)
  <2> DEFINE waits == engine = "postgresql" /\ On(l)[1] # "row"
  <2>1. Runs /\ l \in AddsAt /\ UNCHANGED <<engine, dataVars, healthy, died>> /\ Statement(p).on = On(l)
        /\ (waits => ~Waits(p)) /\ (waits <=> Delays(l))
    BY <1>1, <1>2, <1>12, DeedsTell DEF Adds, Delays, Postgres
  <2>2. CASE Fails(p) /\ UNCHANGED there /\ On(l) \in there
    <3>1. Beaten(p)
      BY <2>1, <2>2 DEF Beaten, NotIdle
    <3> QED
      BY <1>3, <2>1, <2>2, <3>1
  <2>3. CASE /\ Through(p) /\ On(l) \notin there
             /\ there' = IF waits THEN there ELSE there \union Born(On(l))
             /\ held' = [held EXCEPT ![p] = @ \union (IF waits THEN Born(On(l)) ELSE {})]
             /\ UNCHANGED <<aborted, skipped>>
    <3>1. /\ held'[p] = held[p] \union (IF waits THEN Born(On(l)) ELSE {})
          /\ \A q \in Starters : q # p => held'[q] = held[q]
      BY <1>0, <2>3
    <3>2. ASSUME waits, NEW q \in Starters, q # p, l <= 6, line[q] \in 1 .. 6 PROVE held[q] = {}
      <4>1. Statement(p).part = PartOf(l) /\ l \in 1 .. 6
        BY <1>1, <2>1, <3>2
      <4>2. Statement(q).part = PartOf(line[q])
        <5>1. ~Down(q) /\ ~Serves(q)
          BY <3>2, WhereItIs, Numbers
        <5> QED
          BY <5>1, WhereItIs
      <4>3. PartOf(l) = "tables" /\ PartOf(line[q]) = "tables"
        BY <3>2, <4>1 DEF PartOf
      <4> QED
        BY <2>1, <3>2, <4>1, <4>2, <4>3 DEF Waits
    <3>3. Apart /\ Checked /\ Goes(Finds(p))
      BY <1>5, <1>7, <1>8, <2>1, <2>3, <3>1
    <3>4. DidAdd(p)
      <4>1. CASE Delays(l)
        BY <2>1, <2>3, <3>1, <3>2, <4>1 DEF DidAdd
      <4>2. CASE ~Delays(l)
        BY <2>1, <2>3, <3>1, <4>2 DEF DidAdd
      <4> QED
        BY <4>1, <4>2
    <3> QED
      BY <1>4, <2>1, <2>3, <3>3, <3>4
  <2> QED
    BY <1>12, <2>1, <2>2, <2>3 DEF Adds
<1>13. CASE AddsIndex(p)
  <2> DEFINE waits == engine = "postgresql" /\ Statement(p).part = "reports"
  <2>1. /\ Runs /\ l \in IndexesAt /\ UNCHANGED <<engine, dataVars, healthy, skipped, died>>
        /\ Statement(p).on = On(l) /\ Statement(p).part = PartOf(l) /\ Through(p)
        /\ there' = IF waits THEN there ELSE there \union {On(l)}
        /\ aborted' = [aborted EXCEPT ![p] = @ \/ (waits /\ On(l) \in there)]
        /\ held' = [held EXCEPT ![p] = @ \union (IF waits THEN {On(l)} ELSE {})]
    BY <1>1, <1>2, <1>13, DeedsTell DEF AddsIndex
  <2>2. /\ held'[p] = held[p] \union (IF waits THEN {On(l)} ELSE {})
        /\ aborted'[p] = (aborted[p] \/ (waits /\ On(l) \in there)) /\ Apart
    BY <1>0, <2>1
  <2>3. PartOf(l) = "reports" <=> l = 10
    <3>1. CASE Sqlite
      BY <2>1, <3>1, Numbers DEF IndexesAt, PartOf
    <3>2. CASE ~Sqlite
      BY <2>1, <3>2, Numbers DEF IndexesAt, PartOf
    <3> QED
      BY <3>1, <3>2
  <2>4. Checked /\ Goes(Finds(p))
    BY <1>5, <1>7, <1>8, <2>1
  <2>5. waits <=> Postgres /\ l = 10
    BY <2>1, <2>3 DEF Postgres
  <2>6. aborted[p] \in BOOLEAN
    BY DEF StartTyped, StartTypeOK
  <2>7. DidIndex(p)
    <3> HIDE DEF waits
    <3>1. CASE waits
      BY <2>1, <2>2, <2>5, <3>1 DEF DidIndex
    <3>2. CASE ~waits
      BY <2>1, <2>2, <2>5, <2>6, <3>2 DEF DidIndex, Keeps
    <3> QED
      BY <3>1, <3>2
  <2> QED
    BY <1>4, <2>1, <2>2, <2>4, <2>7
<1>14. CASE Commits(p)
  <2>1. /\ Runs /\ l \in CommitsAt /\ UNCHANGED <<engine, dataVars, healthy, skipped, died>> /\ Through(p)
        /\ there' = there \union (IF aborted[p] THEN {} ELSE held[p])
        /\ held' = [held EXCEPT ![p] = {}] /\ aborted' = [aborted EXCEPT ![p] = FALSE]
    BY <1>1, <1>2, <1>14, DeedsTell DEF Commits
  <2>2. held'[p] = {} /\ ~aborted'[p] /\ Apart
    BY <1>0, <2>1
  <2>3. Checked /\ Goes(Finds(p)) /\ DidCommit(p)
    BY <1>5, <1>7, <1>8, <2>1, <2>2 DEF DidCommit
  <2> QED
    BY <1>4, <2>1, <2>2, <2>3
<1>15. CASE Attaches(p)
  <2>1. /\ Runs /\ l = HashAt + 4 /\ ~orphans' /\ Through(p)
        /\ UNCHANGED <<engine, there, token, secret, astray, holder, held, aborted, healthy, skipped, died>>
    BY <1>1, <1>2, <1>15, DeedsTell DEF Attaches
  <2>2. Apart /\ Checked /\ Goes(Finds(p)) /\ DidData(p)
    BY <1>5, <1>6, <1>7, <1>8, <2>1 DEF DidData
  <2> QED
    BY <1>4, <2>1, <2>2
<1>16. CASE Hashes(p)
  <2>1. Runs /\ l = HashAt /\ UNCHANGED <<engine, there, orphans, secret, astray, holder, healthy, died>>
    BY <1>1, <1>2, <1>16, DeedsTell DEF Hashes
  <2>2. CASE token = "plain" /\ ~(All(TokenColumns) \subseteq there) /\ Fails(p) /\ UNCHANGED token
    <3>1. TokenColumns[1] \notin there
      <4>1. All(TokenColumns) = {TokenColumns[1]}
        BY DEF All, TokenColumns, Things
      <4> QED
        BY <2>2, <4>1
    <3> QED
      BY <1>3, <2>1, <2>2, <3>1 DEF Unhashed, dataVars
  <2>3. CASE token' = "hashed" /\ Through(p) /\ UNCHANGED <<held, aborted, skipped>>
    <3>1. Apart /\ Checked /\ Goes(Finds(p)) /\ DidData(p)
      BY <1>5, <1>6, <1>7, <1>8, <2>1, <2>3 DEF DidData
    <3> QED
      BY <1>4, <2>1, <2>3, <3>1
  <2> QED
    BY <1>16, <2>2, <2>3 DEF Hashes
<1>17. CASE Reencrypts(p)
  <2>1. Runs /\ l = HashAt + 1 /\ UNCHANGED <<engine, there, orphans, token, astray, holder, healthy, died>>
    BY <1>1, <1>2, <1>17, DeedsTell DEF Reencrypts
  <2>2. CASE LlmColumns[1] \notin there /\ Fails(p) /\ UNCHANGED secret
    BY <1>3, <2>1, <2>2 DEF Uncovered, dataVars
  <2>3. CASE secret' = "custom" /\ Through(p) /\ UNCHANGED <<held, aborted, skipped>>
    <3>1. Apart /\ Checked /\ Goes(Finds(p)) /\ DidData(p)
      BY <1>5, <1>6, <1>7, <1>8, <2>1, <2>3 DEF DidData
    <3> QED
      BY <1>4, <2>1, <2>3, <3>1
  <2> QED
    BY <1>17, <2>2, <2>3 DEF Reencrypts
<1>18. CASE FindsHealthy(p)
  <2>1. /\ Runs /\ l = HealthyAt /\ healthy' = [healthy EXCEPT ![p] = TRUE] /\ Through(p)
        /\ UNCHANGED <<engine, there, dataVars, held, aborted, skipped, died>>
    BY <1>1, <1>2, <1>18, DeedsTell DEF FindsHealthy
  <2>2. healthy'[p] /\ \A q \in Starters : q # p => healthy'[q] = healthy[q]
    BY <1>0, <2>1
  <2>3. healthy'[p] = (healthy[p] \/ line[p] = HealthyAt)
    <3>1. healthy'[p] = TRUE
      BY <1>0, <2>1
    <3> QED
      BY <2>1, <3>1
  <2>4. Apart /\ Goes(Finds(p)) /\ DidData(p)
    BY <1>5, <1>6, <1>8, <2>1 DEF DidData, dataVars
  <2> QED
    BY <1>4, <2>1, <2>2, <2>3, <2>4
<1>19. CASE EnsuresAdmin(p)
  <2>1. Runs /\ l = HealthyAt + 2 /\ UNCHANGED <<engine, orphans, token, secret, healthy, died>>
    BY <1>1, <1>2, <1>19, DeedsTell DEF EnsuresAdmin
  <2>2. ASSUME Through(p), UNCHANGED <<held, aborted, skipped>>, DidAdmin(p) PROVE Step(p)
    <3>1. Apart /\ Checked /\ Goes(Finds(p))
      BY <1>5, <1>6, <1>7, <1>8, <2>1, <2>2
    <3> QED
      BY <1>4, <2>1, <2>2, <3>1
  <2>3. CASE Admin \in seen[p]
    <3>1. MovesAdmin(p)
      BY <1>19, <2>3 DEF EnsuresAdmin
    <3>2. CASE astray /\ holder = "after" /\ Fails(p) /\ UNCHANGED <<there, astray, holder>>
      BY <1>3, <2>1, <2>3, <3>2 DEF AdminTaken, dataVars
    <3>3. CASE /\ ~(astray /\ holder = "after") /\ astray' = FALSE /\ holder' = IF astray THEN "none" ELSE holder
               /\ Through(p) /\ UNCHANGED <<there, held, aborted, skipped>>
      <4>1. DidAdmin(p)
        BY <1>6, <2>1, <2>3, <3>3 DEF DidAdmin
      <4> QED
        BY <2>2, <3>3, <4>1
    <3> QED
      BY <3>1, <3>2, <3>3 DEF MovesAdmin
  <2>4. CASE Admin \notin seen[p]
    <3>1. MakesAdmin(p)
      BY <1>19, <2>4 DEF EnsuresAdmin
    <3>2. CASE Admin \in there /\ Fails(p) /\ UNCHANGED <<there, astray, holder>>
      BY <1>3, <2>1, <2>4, <3>2 DEF AdminTaken, dataVars
    <3>3. CASE /\ there' = there \union {Admin} /\ holder' = "none"
               /\ Through(p) /\ UNCHANGED <<astray, held, aborted, skipped>>
      <4>1. DidAdmin(p)
        BY <1>6, <2>1, <2>4, <3>3 DEF DidAdmin
      <4> QED
        BY <2>2, <3>3, <4>1
    <3> QED
      BY <3>1, <3>2, <3>3 DEF MakesAdmin
  <2> QED
    BY <2>3, <2>4
<1> QED
  BY <1>9, <1>10, <1>11, <1>12, <1>13, <1>14, <1>15, <1>16, <1>17, <1>18, <1>19 DEF StartStep

-----------------------------------------------------------------------------
(* What there is to add, by the place where it is added.                   *)

\* It is what the statement there is about.
LEMMA WhatAbout ==
    ASSUME engine \in Engines
    PROVE  /\ On(1) = Tables[1] /\ On(7) = ReportColumns[1] /\ On(8) = ReportColumns[1] /\ On(9) = ReportColumns[2]
           /\ On(10) = ReportIndexes[1] /\ On(HashAt + 2) = Legacy /\ On(HashAt + 3) = Legacy
           /\ On(IndexAt) = IndexedTables[2] /\ On(IndexAt + 1) = MarketTables[1] /\ On(IndexAt + 2) = MarketTables[1]
           /\ On(HealthyAt + 1) = Admin /\ On(HealthyAt + 3) = Plans /\ On(HealthyAt + 4) = Plans
           /\ Sqlite => /\ On(12) = LoginColumns[1] /\ On(13) = LoginColumns[1] /\ On(14) = LlmColumns[1]
                        /\ On(15) = LlmColumns[1] /\ On(16) = AccountColumns[1] /\ On(17) = TokenColumns[1]
                        /\ On(18) = TokenColumns[1] /\ On(24) = IndexedTables[1]
           /\ ~Sqlite => On(22) = FactorColumns[1]
<1>1. /\ FullStart[1] = Deed("look", "tables", Tables[1])
      /\ FullStart[7] = Deed("look", "reports", ReportColumns[1])
      /\ FullStart[8] = Deed("add", "reports", ReportColumns[1])
      /\ FullStart[9] = Deed("add", "reports", ReportColumns[2])
      /\ FullStart[10] = Deed("index", "reports", ReportIndexes[1])
  BY Places, Zenon DEF PlacesOfAll
<1>2. /\ FullStart[HashAt + 2] = Deed("look", "legacy", Legacy)
      /\ FullStart[HashAt + 3] = Deed("add", "legacy", Legacy)
      /\ FullStart[IndexAt] = Deed("index", "indexes", IndexedTables[2])
      /\ FullStart[IndexAt + 1] = Deed("look", "market", MarketTables[1])
      /\ FullStart[IndexAt + 2] = Deed("add", "market", MarketTables[1])
  BY Places, Zenon DEF PlacesOfAll
<1>3. /\ FullStart[HealthyAt + 1] = Deed("look", "admin", Admin)
      /\ FullStart[HealthyAt + 3] = Deed("look", "plans", Plans)
      /\ FullStart[HealthyAt + 4] = Deed("add", "plans", Plans)
  BY Places, Zenon DEF PlacesOfAll
<1>4. /\ On(1) = Tables[1] /\ On(7) = ReportColumns[1] /\ On(8) = ReportColumns[1] /\ On(9) = ReportColumns[2]
      /\ On(10) = ReportIndexes[1]
  BY <1>1 DEF On, Deed
<1>5. /\ On(HashAt + 2) = Legacy /\ On(HashAt + 3) = Legacy
      /\ On(IndexAt) = IndexedTables[2] /\ On(IndexAt + 1) = MarketTables[1] /\ On(IndexAt + 2) = MarketTables[1]
  BY <1>2 DEF On, Deed
<1>6. On(HealthyAt + 1) = Admin /\ On(HealthyAt + 3) = Plans /\ On(HealthyAt + 4) = Plans
  BY <1>3 DEF On, Deed
<1>7. ASSUME Sqlite
      PROVE  /\ On(12) = LoginColumns[1] /\ On(13) = LoginColumns[1] /\ On(14) = LlmColumns[1]
             /\ On(15) = LlmColumns[1] /\ On(16) = AccountColumns[1] /\ On(17) = TokenColumns[1]
             /\ On(18) = TokenColumns[1] /\ On(24) = IndexedTables[1]
  <2>1. PlacesOnSqlite
    BY <1>7, Places
  <2> QED
    BY <2>1 DEF PlacesOnSqlite, On, Deed
<1>8. ASSUME ~Sqlite PROVE On(22) = FactorColumns[1]
  <2>1. PlacesElsewhere
    BY <1>8, Places
  <2> QED
    BY <2>1 DEF PlacesElsewhere, On, Deed
<1> QED
  BY <1>4, <1>5, <1>6, <1>7, <1>8

\* The names of these.
LEMMA Names ==
    ASSUME engine \in Engines
    PROVE  /\ On(2) = <<"table", "access_logs">> /\ On(3) = <<"table", "reports">>
           /\ On(4) = <<"table", "user_llm_configs">> /\ On(5) = <<"table", "users">>
           /\ On(8) = <<"reports", "direction">> /\ On(9) = <<"reports", "rating_5tier">>
           /\ On(10) = <<"index", "reports">> /\ On(HashAt + 3) = <<"row", "system_legacy">>
           /\ On(IndexAt) = <<"index", "fast_analyses">>
           /\ On(IndexAt + 2) = <<"market", "marketdata_stk_factor_pro">> /\ On(HealthyAt + 4) = <<"row", "plans">>
           /\ Sqlite => /\ On(13) = <<"users", "last_login_ip">>
                        /\ On(15) = <<"user_llm_configs", "wecom_webhook_encrypted">>
                        /\ On(16) = <<"users", "username">> /\ On(18) = <<"user_tokens", "token_hint">>
                        /\ On(24) = <<"index", "access_logs">>
           /\ ~Sqlite => On(22) = <<"marketdata_stk_factor_pro", "fd_amount">>
           /\ TokenColumns[1] = <<"user_tokens", "token_hint">>
           /\ LlmColumns[1] = <<"user_llm_configs", "wecom_webhook_encrypted">>
           /\ FactorColumns[1] = <<"marketdata_stk_factor_pro", "fd_amount">>
           /\ UserColumns = {<<"users", "last_login_ip">>, <<"users", "username">>}
           /\ All(Tables) = {On(2), On(3), On(4), On(5)}
<1>1. /\ FullStart[2].on = Tables[1] /\ FullStart[3].on = Tables[2]
      /\ FullStart[4].on = Tables[3] /\ FullStart[5].on = Tables[4]
  <2>1. FullStart[2].on = Tables[1] /\ FullStart[3].on = Tables[2]
    BY TablePlaces DEF Deed
  <2>2. FullStart[4].on = Tables[3] /\ FullStart[5].on = Tables[4]
    BY TablePlaces DEF Deed
  <2> QED
    BY <2>1, <2>2
<1>2. /\ Tables[1] = <<"table", "access_logs">> /\ Tables[2] = <<"table", "reports">>
      /\ Tables[3] = <<"table", "user_llm_configs">> /\ Tables[4] = <<"table", "users">>
      /\ All(Tables) = {Tables[1], Tables[2], Tables[3], Tables[4]}
  BY DEF Tables, Things, All
<1>3. /\ On(2) = Tables[1] /\ On(3) = Tables[2] /\ On(4) = Tables[3] /\ On(5) = Tables[4]
      /\ On(8) = ReportColumns[1] /\ On(9) = ReportColumns[2] /\ On(10) = ReportIndexes[1]
      /\ On(HashAt + 3) = Legacy /\ On(IndexAt) = IndexedTables[2] /\ On(IndexAt + 2) = MarketTables[1]
      /\ On(HealthyAt + 4) = Plans
  BY <1>1, WhatAbout DEF On
<1>4. /\ Sqlite => /\ On(13) = LoginColumns[1] /\ On(15) = LlmColumns[1] /\ On(16) = AccountColumns[1]
                   /\ On(18) = TokenColumns[1] /\ On(24) = IndexedTables[1]
      /\ ~Sqlite => On(22) = FactorColumns[1]
  BY WhatAbout
<1>5. /\ ReportColumns[1] = <<"reports", "direction">> /\ ReportColumns[2] = <<"reports", "rating_5tier">>
      /\ ReportIndexes[1] = <<"index", "reports">> /\ IndexedTables[1] = <<"index", "access_logs">>
      /\ IndexedTables[2] = <<"index", "fast_analyses">>
      /\ MarketTables[1] = <<"market", "marketdata_stk_factor_pro">>
  BY DEF ReportColumns, ReportIndexes, IndexedTables, MarketTables, Things
<1>6. /\ LoginColumns[1] = <<"users", "last_login_ip">> /\ AccountColumns[1] = <<"users", "username">>
      /\ TokenColumns[1] = <<"user_tokens", "token_hint">>
      /\ LlmColumns[1] = <<"user_llm_configs", "wecom_webhook_encrypted">>
      /\ FactorColumns[1] = <<"marketdata_stk_factor_pro", "fd_amount">>
      /\ UserColumns = {LoginColumns[1], AccountColumns[1]}
  BY DEF LoginColumns, AccountColumns, TokenColumns, LlmColumns, FactorColumns, UserColumns, All, Things
<1> QED
  BY <1>1, <1>2, <1>3, <1>4, <1>5, <1>6 DEF Legacy, Plans

\* What it brings along.
LEMMA Births ==
    ASSUME engine \in Engines
    PROVE  /\ \A k \in AddsAt : On(k) \in Born(On(k))
           /\ \A k \in AddsAt : k > 6 /\ k # IndexAt + 2 => Born(On(k)) = {On(k)}
           /\ Born(On(IndexAt + 2)) = {On(IndexAt + 2), FactorColumns[1]}
           /\ \A k \in 2 .. 5 : On(k) \in All(Tables) /\ \A j \in 2 .. 5 : On(j) \in Born(On(k)) => j = k
           /\ \A k \in AddsAt : On(k)[1] = "row" <=> k \in {HashAt + 3, HealthyAt + 4}
<1>1. \A k \in AddsAt : On(k) \in Born(On(k))
  BY DEF Born
<1>2. Born(On(IndexAt + 2)) = {On(IndexAt + 2), FactorColumns[1]}
  <2>1. All(FactorColumns) = {FactorColumns[1]}
    BY DEF FactorColumns, All, Things
  <2> QED
    BY <2>1, Names DEF Born
<1>3. \A k \in AddsAt : k > 6 /\ k # IndexAt + 2 => Born(On(k)) = {On(k)}
  <2>1. CASE Sqlite
    <3>1. \A k \in AddsAt : k > 6 /\ k # IndexAt + 2 => k \in {8, 9, HashAt + 3, HealthyAt + 4, 13, 15, 16, 18}
      BY <2>1, Numbers DEF AddsAt
    <3>2. Born(On(8)) = {On(8)} /\ Born(On(9)) = {On(9)} /\ Born(On(13)) = {On(13)} /\ Born(On(15)) = {On(15)}
      BY <2>1, Names DEF Born
    <3>3. /\ Born(On(16)) = {On(16)} /\ Born(On(18)) = {On(18)} /\ Born(On(HashAt + 3)) = {On(HashAt + 3)}
          /\ Born(On(HealthyAt + 4)) = {On(HealthyAt + 4)}
      BY <2>1, Names DEF Born
    <3> QED
      BY <3>1, <3>2, <3>3
  <2>2. CASE ~Sqlite
    <3>1. \A k \in AddsAt : k > 6 /\ k # IndexAt + 2 => k \in {8, 9, HashAt + 3, HealthyAt + 4, 22}
      BY <2>2, Numbers DEF AddsAt
    <3>2. /\ Born(On(8)) = {On(8)} /\ Born(On(9)) = {On(9)} /\ Born(On(22)) = {On(22)}
          /\ Born(On(HashAt + 3)) = {On(HashAt + 3)} /\ Born(On(HealthyAt + 4)) = {On(HealthyAt + 4)}
      BY <2>2, Names DEF Born
    <3> QED
      BY <3>1, <3>2
  <2> QED
    BY <2>1, <2>2
<1>4. \A k \in 2 .. 5 : On(k) \in All(Tables) /\ \A j \in 2 .. 5 : On(j) \in Born(On(k)) => j = k
  <2>1. \A k \in 2 .. 5 : k = 2 \/ k = 3 \/ k = 4 \/ k = 5
    OBVIOUS
  <2>2. \A k \in 2 .. 5 : On(k) \in All(Tables) /\ On(k)[1] = "table"
    BY <2>1, Names
  <2>3. \A j, k \in 2 .. 5 : On(j) = On(k) => j = k
    BY <2>1, Names
  <2>4. ASSUME NEW k \in 2 .. 5, NEW j \in 2 .. 5, On(j) \in Born(On(k)) PROVE On(j) = On(k)
    <3>1. \A x \in All(ReportColumns) \union All(ReportIndexes) \union UserColumns \union All(LlmColumns)
                     \union All(TokenColumns) \union All(IndexedTables) \union All(FactorColumns) : x[1] # "table"
      BY DEF All, ReportColumns, ReportIndexes, UserColumns, LoginColumns, AccountColumns, LlmColumns, TokenColumns,
             IndexedTables, FactorColumns, Things
    <3> QED
      BY <2>2, <2>4, <3>1 DEF Born
  <2> QED
    BY <2>2, <2>3, <2>4
<1>5. \A k \in AddsAt : On(k)[1] = "row" <=> k \in {HashAt + 3, HealthyAt + 4}
  <2>1. CASE Sqlite
    BY <2>1, Names, Numbers DEF AddsAt
  <2>2. CASE ~Sqlite
    BY <2>2, Names, Numbers DEF AddsAt
  <2> QED
    BY <2>1, <2>2
<1> QED
  BY <1>1, <1>2, <1>3, <1>4, <1>5

\* No two places add the same.
LEMMA AddedOnce ==
    ASSUME engine \in Engines, NEW j \in AddsAt, NEW k \in AddsAt, On(j) = On(k)
    PROVE  j = k
<1>1. CASE Sqlite
  BY <1>1, Names, Numbers DEF AddsAt
<1>2. CASE ~Sqlite
  BY <1>2, Names, Numbers DEF AddsAt
<1> QED
  BY <1>1, <1>2

-----------------------------------------------------------------------------
(* The invariant of the start, kept by every step.                         *)

SchemaInv ==
    /\ StartTyped /\ SeenThere /\ NotIdle /\ NewHeld /\ HeldByOne
    /\ TablesBrought /\ IndexesBrought /\ ReportsBrought /\ MarketBrought /\ AdminBrought
    /\ NothingLost /\ BeatenByOne /\ OneGoesOn

\* No step moves the places.
LEMMA SamePlaces ==
    ASSUME engine' = engine
    PROVE  /\ HashAt' = HashAt /\ IndexAt' = IndexAt /\ HealthyAt' = HealthyAt
           /\ (Sqlite <=> Sqlite') /\ (Postgres <=> Postgres')
           /\ AddsAt' = AddsAt /\ CommitsAt' = CommitsAt /\ Targets' = Targets
           /\ \A k : On(k)' = On(k)
           /\ \A s, k, i : Pair(s, k, i)' <=> Pair(s, k, i)
<1>1. /\ HashAt' = HashAt /\ IndexAt' = IndexAt /\ HealthyAt' = HealthyAt
      /\ (Sqlite <=> Sqlite') /\ (Postgres <=> Postgres')
  BY DEF HashAt, IndexAt, HealthyAt, Sqlite, Postgres
<1>2. AddsAt' = AddsAt /\ CommitsAt' = CommitsAt
  BY <1>1 DEF AddsAt, CommitsAt
<1>3. Targets' = Targets
  BY <1>1 DEF Targets
<1>4. \A s, k, i : Pair(s, k, i)' <=> Pair(s, k, i)
  BY <1>1 DEF Pair
<1>5. \A k : On(k)' = On(k)
  <2>1. FullStart' = FullStart
    BY DEF FullStart
  <2> QED
    BY <2>1 DEF On
<1> QED
  BY <1>1, <1>2, <1>3, <1>4, <1>5

\* Nothing is taken away.
LEMMA Grows ==
    ASSUME StartTyped, NEW p \in Starters, Step(p)
    PROVE  /\ engine' = engine /\ there \subseteq there' /\ died \in Nat
           /\ died' = died \/ (Drops(p) /\ died' = died + 1)
           /\ there' # there => Advances(p)
<1>1. died \in Nat
  BY StartupAssumption DEF StartTyped, StartTypeOK
<1>2. CASE Begins(p)
  BY <1>1, <1>2 DEF Step, Alone, Begins
<1>3. CASE Drops(p)
  BY <1>1, <1>3 DEF Step, Alone, Drops
<1>4. CASE Falls(p)
  BY <1>1, <1>4 DEF Step, Alone, Falls
<1>5. CASE Advances(p)
  <2>1. there \subseteq there'
    BY <1>5 DEF Advances, DidLook, DidAdd, DidIndex, DidCommit, DidData, DidAdmin
  <2> QED
    BY <1>1, <1>5, <2>1 DEF Step, Alone, Advances, MovesUp
<1> QED
  BY <1>2, <1>3, <1>4, <1>5 DEF Step

\* Once a process is past the tables, what is new is what a later statement is about.
LEMMA NewThings ==
    ASSUME SchemaInv, NEW p \in Starters, Step(p), NEW q \in Starters, line[q] > 6, NEW x \in there' \ there
    PROVE  /\ Advances(p) /\ line[p] > 6 /\ line'[p] > line[p]
           /\ \/ DidAdd(p) /\ ~Delays(line[p]) /\ x \in Born(On(line[p]))
              \/ DidIndex(p) /\ x = On(line[p])
              \/ DidCommit(p) /\ Postgres /\ line[p] = 11 /\ x \in {On(8), On(9), On(10)} \intersect held[p] /\ ~aborted[p]
              \/ DidCommit(p) /\ Postgres /\ line[p] > 11 /\ x \in Born(On(IndexAt + 2)) \intersect held[p]
              \/ DidAdmin(p) /\ x = Admin
<1>1. Advances(p)
  BY Grows DEF SchemaInv
<1>2. line[p] \in 1 .. HealthyAt + 4 /\ line'[p] > line[p] /\ HealthyAt \in Nat
  BY <1>1, Numbers DEF Advances, MovesUp
<1>3. All(Tables) \subseteq there /\ engine \in Engines
  BY DEF SchemaInv, TablesBrought, StartTyped, StartTypeOK
<1>4. CASE DidAdd(p)
  <2>1. ~Delays(line[p]) /\ x \in Born(On(line[p])) /\ On(line[p]) \notin there /\ line[p] \in AddsAt
    BY <1>4 DEF DidAdd
  <2>2. line[p] \notin 2 .. 5
    BY <1>3, <2>1, Births
  <2>3. line[p] > 6
    <3>1. CASE Sqlite
      BY <2>1, <2>2, <3>1, Numbers DEF AddsAt
    <3>2. CASE ~Sqlite
      BY <2>1, <2>2, <3>2, Numbers DEF AddsAt
    <3> QED
      BY <3>1, <3>2
  <2> QED
    BY <1>1, <1>2, <1>4, <2>1, <2>3
<1>5. CASE DidIndex(p)
  <2>1. x = On(line[p]) /\ line[p] \in IndexesAt
    BY <1>5 DEF DidIndex
  <2>2. line[p] > 6
    BY <2>1, Numbers DEF IndexesAt
  <2> QED
    BY <1>1, <1>2, <1>5, <2>1, <2>2
<1>6. CASE DidCommit(p)
  <2>1. x \in held[p] /\ ~aborted[p] /\ line[p] \in CommitsAt
    BY <1>6 DEF DidCommit
  <2>2. Postgres
    BY <2>1 DEF SchemaInv, NewHeld
  <2>3. ~(line[p] <= 6)
    <3> SUFFICES ASSUME line[p] <= 6 PROVE FALSE
      OBVIOUS
    <3>1. \E t \in All(Tables) : t \notin there
      BY <2>1 DEF SchemaInv, NewHeld
    <3> QED
      BY <1>3, <3>1
  <2>4. line[p] > 6 /\ (line[p] \in 7 .. 11 \/ line[p] > 11)
    BY <1>2, <2>3
  <2>5. line[p] \in 7 .. 11 => line[p] = 11 /\ x \in {On(8), On(9), On(10)}
    BY <2>1, Numbers DEF SchemaInv, NewHeld, CommitsAt
  <2>6. line[p] > 11 => x \in Born(On(IndexAt + 2))
    BY <2>1 DEF SchemaInv, NewHeld
  <2> QED
    BY <1>1, <1>2, <1>6, <2>1, <2>2, <2>4, <2>5, <2>6
<1>7. CASE DidAdmin(p)
  <2>1. x = Admin /\ line[p] = HealthyAt + 2
    BY <1>7 DEF DidAdmin
  <2>2. line[p] > 6
    BY <2>1, Numbers
  <2> QED
    BY <1>1, <1>2, <1>7, <2>1, <2>2
<1>8. CASE DidLook(p) \/ DidData(p)
  BY <1>8 DEF DidLook, DidData
<1> QED
  BY <1>1, <1>4, <1>5, <1>6, <1>7, <1>8 DEF Advances

\* What one place adds is added there, but for the columns of the reports on PostgreSQL and
\* the market data.
LEMMA NewAtPlace ==
    ASSUME SchemaInv, NEW p \in Starters, Step(p), NEW q \in Starters, line[q] > 6, NEW k \in AddsAt,
           On(k) \in there' \ there, k > 6, k # IndexAt + 2, On(k) # FactorColumns[1], k > 9 \/ ~Postgres
    PROVE  Advances(p) /\ DidAdd(p) /\ line[p] = k
<1>1. engine \in Engines
  BY DEF SchemaInv, StartTyped, StartTypeOK
<1>2. /\ \A j \in IndexesAt : On(j)[1] = "index"
      /\ Admin[1] = "row" /\ Admin # Legacy /\ Admin # Plans
  <2>1. CASE Sqlite
    BY <1>1, <2>1, Names, Numbers DEF IndexesAt, Admin, Legacy, Plans
  <2>2. CASE ~Sqlite
    BY <1>1, <2>2, Names, Numbers DEF IndexesAt, Admin, Legacy, Plans
  <2> QED
    BY <2>1, <2>2
<1>3. /\ On(k)[1] # "index" /\ On(k) # Admin /\ On(k) # On(IndexAt + 2)
  <2>1. CASE Sqlite
    BY <1>1, <2>1, Names, Numbers DEF AddsAt, Admin
  <2>2. CASE ~Sqlite
    BY <1>1, <2>2, Names, Numbers DEF AddsAt, Admin
  <2> QED
    BY <2>1, <2>2
<1>4. CASE DidAdd(p) /\ ~Delays(line[p]) /\ On(k) \in Born(On(line[p])) /\ Advances(p) /\ line[p] > 6
  <2>1. line[p] \in AddsAt
    BY <1>4 DEF DidAdd
  <2>2. line[p] # IndexAt + 2
    BY <1>1, <1>3, <1>4, Births
  <2>3. On(k) = On(line[p])
    BY <1>1, <1>4, <2>1, <2>2, Births
  <2> QED
    BY <1>1, <1>4, <2>1, <2>3, AddedOnce
<1>5. CASE DidIndex(p) /\ On(k) = On(line[p])
  BY <1>2, <1>3, <1>5 DEF DidIndex
<1>6. CASE Postgres /\ On(k) \in {On(8), On(9), On(10)}
  <2>1. k \in AddsAt /\ 8 \in AddsAt /\ 9 \in AddsAt /\ On(10)[1] = "index" /\ k > 9
    BY <1>1, <1>6, Names DEF AddsAt
  <2>2. k = 8 \/ k = 9
    BY <1>1, <1>3, <1>6, <2>1, AddedOnce
  <2> QED
    BY <2>1, <2>2
<1>7. CASE On(k) \in Born(On(IndexAt + 2)) \/ On(k) = Admin
  BY <1>1, <1>3, <1>7, Births
<1> QED
  BY <1>4, <1>5, <1>6, <1>7, NewThings

\* The columns that only come late are those that only SQLite gets.
LEMMA NewColumn ==
    ASSUME SchemaInv, NEW p \in Starters, Step(p), NEW q \in Starters, line[q] > 6,
           NEW x \in there' \ there, x \in {TokenColumns[1], LlmColumns[1]} \union UserColumns
    PROVE  /\ Sqlite /\ Advances(p) /\ DidAdd(p) /\ line[p] \in {13, 15, 16, 18} /\ x = On(line[p])
<1>1. engine \in Engines
  BY DEF SchemaInv, StartTyped, StartTypeOK
<1>2. x[1] \in {"users", "user_llm_configs", "user_tokens"}
  BY <1>1, Names
<1>3. /\ \A j \in IndexesAt : On(j)[1] = "index"
      /\ Admin[1] = "row" /\ On(8)[1] = "reports" /\ On(9)[1] = "reports" /\ On(10)[1] = "index"
      /\ \A y \in Born(On(IndexAt + 2)) : y[1] \in {"market", "marketdata_stk_factor_pro"}
  <2>1. /\ Admin[1] = "row" /\ On(8)[1] = "reports" /\ On(9)[1] = "reports" /\ On(10)[1] = "index"
        /\ On(IndexAt + 2)[1] = "market" /\ FactorColumns[1][1] = "marketdata_stk_factor_pro"
    BY <1>1, Names DEF Admin
  <2>2. CASE Sqlite
    BY <1>1, <2>1, <2>2, Births, Names, Numbers DEF IndexesAt
  <2>3. CASE ~Sqlite
    BY <1>1, <2>1, <2>3, Births, Names, Numbers DEF IndexesAt
  <2> QED
    BY <2>2, <2>3
<1>4. CASE DidAdd(p) /\ ~Delays(line[p]) /\ x \in Born(On(line[p])) /\ Advances(p) /\ line[p] > 6
  <2>1. line[p] \in AddsAt
    BY <1>4 DEF DidAdd
  <2>2. line[p] # IndexAt + 2
    BY <1>1, <1>2, <1>3, <1>4
  <2>3. x = On(line[p])
    BY <1>1, <1>4, <2>1, <2>2, Births
  <2>4. CASE Sqlite
    <3>1. line[p] \in {8, 9, HashAt + 3, HealthyAt + 4, 13, 15, 16, 18}
      BY <1>4, <2>1, <2>2, <2>4, Numbers DEF AddsAt
    <3> QED
      BY <1>1, <1>2, <1>4, <2>3, <2>4, <3>1, Names
  <2>5. CASE ~Sqlite
    <3>1. line[p] \in {8, 9, HashAt + 3, HealthyAt + 4, 22}
      BY <1>4, <2>1, <2>2, <2>5, Numbers DEF AddsAt
    <3> QED
      BY <1>1, <1>2, <2>3, <2>5, <3>1, Names
  <2> QED
    BY <2>4, <2>5
<1>5. CASE DidIndex(p) /\ x = On(line[p])
  BY <1>2, <1>3, <1>5 DEF DidIndex
<1>6. CASE x \in {On(8), On(9), On(10)} \/ x \in Born(On(IndexAt + 2)) \/ x = Admin
  BY <1>2, <1>3, <1>6
<1> QED
  BY <1>4, <1>5, <1>6, NewThings

\* No process passes over a statement that there is something to do for.
LEMMA Stops ==
    ASSUME NEW p, Advances(p), NEW b \in Nat, b > line[p], b \notin AddsAt, b \notin CommitsAt \/ Postgres
    PROVE  line'[p] <= b
<1>1. /\ line[p] \in Nat /\ line'[p] \in Nat
      /\ \A m \in line[p] + 1 .. line'[p] - 1 : HasNone(m, seen'[p])
  BY Numbers DEF Advances, MovesUp
<1>2. ~HasNone(b, seen'[p])
  BY DEF HasNone
<1> QED
  BY <1>1, <1>2

\* Where a failure leads to.
LEMMA FallsTo ==
    ASSUME NEW p, Falls(p)
    PROVE  /\ line[p] \in 1 .. HealthyAt + 4 /\ line'[p] = EndOf(line[p])
           /\ line[p] <= 6 \/ line[p] > HealthyAt => line'[p] = 0
           /\ line[p] \in 7 .. HealthyAt => line'[p] \in line[p] + 1 .. HealthyAt + 1
           /\ line'[p] \notin AddsAt /\ line'[p] \notin CommitsAt
           /\ line[p] \in 7 .. HealthyAt \/ line'[p] = 0
<1>1. line[p] \in 1 .. HealthyAt + 4 /\ line'[p] = EndOf(line[p])
  BY DEF Falls
<1>2. CASE line[p] <= 6 \/ line[p] > HealthyAt
  <2>1. line'[p] = 0
    BY <1>1, <1>2 DEF EndOf
  <2>2. 0 \notin AddsAt /\ 0 \notin CommitsAt /\ line[p] \notin 7 .. HealthyAt
    BY <1>1, <1>2, Numbers DEF AddsAt, CommitsAt
  <2> QED
    BY <1>1, <2>1, <2>2
<1>3. CASE ~(line[p] <= 6 \/ line[p] > HealthyAt)
  <2>1. line[p] \in 7 .. HealthyAt
    BY <1>1, <1>3, Numbers
  <2> QED
    BY <1>1, <1>3, <2>1, PartEnds
<1> QED
  BY <1>2, <1>3

\* What is seen is there.
LEMMA SeenThereKept == ASSUME SchemaInv, NEW p \in Starters, Step(p) PROVE SeenThere'
<1>1. /\ \A q \in Starters : seen[q] \subseteq there \union {Occupied}
      /\ there \subseteq there'
  BY Grows DEF SchemaInv, SeenThere
<1>2. \A q \in Starters : q # p => seen'[q] = seen[q]
  BY DEF Step, Alone
<1>3. seen'[p] \in {{}, seen[p], Finds(p)}
  BY DEF Step, Begins, Drops, Falls, Advances, MovesUp
<1>4. Finds(p) \subseteq there \union {Occupied}
  BY <1>1 DEF Finds
<1> QED
  BY <1>1, <1>2, <1>3, <1>4 DEF SeenThere

\* No process is at a statement with nothing to do.
LEMMA NotIdleKept == ASSUME SchemaInv, NEW p \in Starters, Step(p) PROVE NotIdle'
<1>1. /\ AddsAt' = AddsAt /\ CommitsAt' = CommitsAt /\ (Postgres' <=> Postgres) /\ \A k : On(k)' = On(k)
  BY Grows, SamePlaces DEF SchemaInv
<1>2. \A q \in Starters : /\ line[q] \in AddsAt => On(line[q]) \notin seen[q]
                          /\ line[q] \in CommitsAt => Postgres
  BY DEF SchemaInv, NotIdle
<1>3. \A q \in Starters : q # p => line'[q] = line[q] /\ seen'[q] = seen[q]
  BY DEF Step, Alone
<1>4. /\ line'[p] \in AddsAt => On(line'[p]) \notin seen'[p]
      /\ line'[p] \in CommitsAt => Postgres
  <2>1. CASE Begins(p) \/ Drops(p)
    <3>1. line'[p] \in {0, 1}
      BY <2>1 DEF Begins, Drops
    <3>2. 0 \notin AddsAt /\ 0 \notin CommitsAt /\ 1 \notin AddsAt /\ 1 \notin CommitsAt
      BY Numbers DEF AddsAt, CommitsAt
    <3> QED
      BY <3>1, <3>2
  <2>2. CASE Falls(p)
    BY <2>2, FallsTo
  <2>3. CASE Advances(p)
    BY <2>3 DEF Advances, MovesUp, HasNone
  <2> QED
    BY <2>1, <2>2, <2>3 DEF Step
<1>5. SUFFICES ASSUME NEW q \in Starters
               PROVE  /\ line'[q] \in AddsAt => On(line'[q]) \notin seen'[q]
                      /\ line'[q] \in CommitsAt => Postgres
  BY <1>1 DEF NotIdle
<1>6. CASE q = p
  BY <1>4, <1>6
<1>7. CASE q # p
  BY <1>2, <1>3, <1>7
<1> QED
  BY <1>6, <1>7

\* What becomes of what is held.
HeldBy(p) ==
    /\ \/ held'[p] = held[p] /\ line[p] \notin CommitsAt
       \/ held'[p] = {} /\ line[p] \in CommitsAt
       \/ /\ line[p] \in AddsAt /\ Delays(line[p]) /\ held'[p] = held[p] \union Born(On(line[p]))
          /\ On(line[p]) \notin there'
       \/ line[p] = 10 /\ held'[p] = held[p] \union {On(10)}
    /\ aborted'[p] => (aborted[p] /\ line[p] \notin CommitsAt) \/ (line[p] = 10 /\ On(10) \in there)

\* It is empty where nothing waits, and grows by what is added.
LEMMA HeldMoves ==
    ASSUME SchemaInv, NEW p \in Starters, Step(p)
    PROVE  /\ ~Postgres => held'[p] = {} /\ ~aborted'[p]
           /\ line'[p] = 0 => held'[p] = {} /\ ~aborted'[p]
           /\ \/ (Begins(p) \/ Drops(p) \/ Falls(p)) /\ held'[p] = {} /\ ~aborted'[p]
              \/ Advances(p) /\ HeldBy(p)
<1>1. ~Postgres \/ line[p] = 0 => held[p] = {} /\ ~aborted[p]
  BY DEF SchemaInv, NewHeld
<1>2. CASE Begins(p)
  <2>1. line[p] = 0 /\ line'[p] = 1 /\ held'[p] = held[p] /\ aborted'[p] = aborted[p]
    BY <1>2 DEF Begins
  <2> QED
    BY <1>1, <1>2, <2>1
<1>3. CASE Drops(p) \/ Falls(p)
  BY <1>3 DEF Drops, Falls
<1>4. CASE Advances(p)
  <2>0. line'[p] # 0
    BY <1>4, Numbers DEF Advances, MovesUp
  <2>1. CASE DidCommit(p)
    <3>1. held'[p] = {} /\ ~aborted'[p] /\ line[p] \in CommitsAt
      BY <2>1 DEF DidCommit
    <3> QED
      BY <1>4, <2>0, <3>1 DEF HeldBy
  <2>2. CASE DidAdd(p)
    <3>1. line[p] \in AddsAt /\ line[p] \notin CommitsAt /\ aborted'[p] = aborted[p]
      <4>1. CASE Sqlite
        BY <2>2, <4>1, Numbers DEF DidAdd, AddsAt, CommitsAt
      <4>2. CASE ~Sqlite
        BY <2>2, <4>2, Numbers DEF DidAdd, AddsAt, CommitsAt
      <4> QED
        BY <4>1, <4>2
    <3>2. CASE Delays(line[p])
      <4>1. held'[p] = held[p] \union Born(On(line[p])) /\ On(line[p]) \notin there' /\ Postgres
        BY <2>2, <3>2 DEF DidAdd, Delays
      <4> QED
        BY <1>4, <2>0, <3>1, <3>2, <4>1 DEF HeldBy
    <3>3. CASE ~Delays(line[p])
      <4>1. held'[p] = held[p]
        BY <2>2, <3>3 DEF DidAdd
      <4> QED
        BY <1>1, <1>4, <2>0, <3>1, <4>1 DEF HeldBy
    <3> QED
      BY <3>2, <3>3
  <2>3. CASE DidLook(p) \/ DidData(p) \/ DidAdmin(p) \/ (DidIndex(p) /\ ~(Postgres /\ line[p] = 10))
    <3>1. line[p] \notin CommitsAt
      <4>1. CASE Sqlite
        BY <2>3, <4>1, Numbers DEF DidLook, DidIndex, DidData, DidAdmin, CommitsAt, LooksAt, IndexesAt
      <4>2. CASE ~Sqlite
        BY <2>3, <4>2, Numbers DEF DidLook, DidIndex, DidData, DidAdmin, CommitsAt, LooksAt, IndexesAt
      <4> QED
        BY <4>1, <4>2
    <3>2. held'[p] = held[p] /\ aborted'[p] = aborted[p]
      BY <2>3 DEF DidLook, DidIndex, DidData, DidAdmin, Keeps
    <3> QED
      BY <1>1, <1>4, <2>0, <3>1, <3>2 DEF HeldBy
  <2>4. CASE DidIndex(p) /\ Postgres /\ line[p] = 10
    <3>1. held'[p] = held[p] \union {On(10)} /\ aborted'[p] = (aborted[p] \/ On(10) \in there)
      BY <2>4 DEF DidIndex
    <3>2. line[p] \notin CommitsAt
      BY <2>4, Numbers DEF CommitsAt
    <3> QED
      BY <1>4, <2>0, <2>4, <3>1, <3>2 DEF HeldBy
  <2> QED
    BY <1>4, <2>1, <2>2, <2>3, <2>4 DEF Advances
<1> QED
  BY <1>2, <1>3, <1>4 DEF Step

\* On PostgreSQL a table comes with the commit of all tables.
LEMMA NewTable ==
    ASSUME SchemaInv, NEW p \in Starters, Step(p), Postgres, NEW t \in All(Tables), t \in there' \ there
    PROVE  line[p] <= 6 /\ held[p] # {}
<1>1. engine \in Engines /\ Advances(p) /\ line[p] \in 1 .. HealthyAt + 4 /\ HealthyAt \in Nat
  BY Grows, Numbers DEF SchemaInv, StartTyped, StartTypeOK, Advances, MovesUp
<1>2. /\ t[1] = "table" /\ Admin[1] = "row" /\ On(8)[1] = "reports" /\ On(9)[1] = "reports" /\ On(10)[1] = "index"
      /\ On(HashAt + 3)[1] = "row" /\ On(HealthyAt + 4)[1] = "row"
  BY <1>1, Names DEF Admin
<1>3. /\ \A j \in IndexesAt : On(j)[1] = "index"
      /\ \A y \in Born(On(IndexAt + 2)) : y[1] \in {"market", "marketdata_stk_factor_pro"}
  <2>1. On(IndexAt + 2)[1] = "market" /\ FactorColumns[1][1] = "marketdata_stk_factor_pro" /\ ~Sqlite
    BY <1>1, Names, Numbers
  <2> QED
    BY <1>1, <2>1, Births, Names, Numbers DEF IndexesAt
<1>4. CASE DidAdd(p)
  <2>1. line[p] \in AddsAt /\ ~Delays(line[p]) /\ t \in Born(On(line[p]))
    BY <1>4 DEF DidAdd
  <2>2. line[p] \in {HashAt + 3, HealthyAt + 4}
    BY <1>1, <2>1, Births DEF Delays
  <2>3. line[p] > 6 /\ line[p] # IndexAt + 2
    BY <2>2, Numbers
  <2>4. t = On(line[p])
    BY <1>1, <2>1, <2>3, Births
  <2> QED
    BY <1>2, <2>2, <2>4
<1>5. CASE DidIndex(p)
  BY <1>2, <1>3, <1>5 DEF DidIndex
<1>6. CASE DidCommit(p)
  <2>1. t \in held[p]
    BY <1>6 DEF DidCommit
  <2>2. /\ line[p] \in 7 .. 11 => t \in {On(8), On(9), On(10)}
        /\ line[p] > 11 => t \in Born(On(IndexAt + 2))
    BY <2>1 DEF SchemaInv, NewHeld
  <2>3. line[p] \notin 7 .. 11 /\ ~(line[p] > 11)
    BY <1>2, <1>3, <2>2
  <2> QED
    BY <1>1, <2>1, <2>3
<1>7. CASE DidLook(p) \/ DidData(p) \/ DidAdmin(p)
  BY <1>2, <1>7 DEF DidLook, DidData, DidAdmin
<1> QED
  BY <1>1, <1>4, <1>5, <1>6, <1>7 DEF Advances

\* What is held is new and of the part; a failed statement is the index of the reports.
LEMMA NewHeldKept == ASSUME SchemaInv, NEW p \in Starters, Step(p) PROVE NewHeld'
<1> DEFINE Ok(q, l, h, a, T) ==
             /\ ~Postgres \/ l = 0 => h = {} /\ ~a
             /\ a => l = 11 /\ On(10) \in T
             /\ l <= 6 /\ h # {} => \E t \in All(Tables) : t \in h /\ t \notin T
             /\ l \in 7 .. 11 => h \subseteq {On(8), On(9), On(10)}
             /\ l > 11 => h \subseteq Born(On(IndexAt + 2))
             /\ l > 11 /\ On(IndexAt + 2) \in h => FactorColumns[1] \in h
<1>1. /\ IndexAt' = IndexAt /\ (Postgres' <=> Postgres) /\ \A k : On(k)' = On(k)
      /\ engine \in Engines /\ there \subseteq there'
  BY Grows, SamePlaces DEF SchemaInv, StartTyped, StartTypeOK
<1>2. \A q \in Starters : Ok(q, line[q], held[q], aborted[q], there)
  BY DEF SchemaInv, NewHeld
<1>3. \A q \in Starters : q # p => line'[q] = line[q] /\ held'[q] = held[q] /\ aborted'[q] = aborted[q]
  BY DEF Step, Alone
<1>4. ASSUME NEW q \in Starters, q # p PROVE Ok(q, line'[q], held'[q], aborted'[q], there')
  <2>1. Ok(q, line[q], held[q], aborted[q], there)
    BY <1>2
  <2>2. ASSUME line[q] <= 6, held[q] # {} PROVE \E t \in All(Tables) : t \in held[q] /\ t \notin there'
    <3>1. PICK t \in All(Tables) : t \in held[q] /\ t \notin there
      BY <2>1, <2>2
    <3>2. Postgres
      BY <2>1, <2>2
    <3>3. t \notin there'
      <4> SUFFICES ASSUME t \in there' PROVE FALSE
        OBVIOUS
      <4>1. line[p] <= 6 /\ held[p] # {}
        BY <3>1, <3>2, NewTable
      <4> QED
        BY <1>4, <2>2, <4>1 DEF SchemaInv, HeldByOne
    <3> QED
      BY <3>1, <3>3
  <2> QED
    BY <1>1, <1>3, <1>4, <2>1, <2>2
<1>5. Ok(p, line'[p], held'[p], aborted'[p], there')
  <2>0. Ok(p, line[p], held[p], aborted[p], there)
    BY <1>2
  <2>1. /\ ~Postgres => held'[p] = {} /\ ~aborted'[p]
        /\ line'[p] = 0 => held'[p] = {} /\ ~aborted'[p]
        /\ \/ held'[p] = {} /\ ~aborted'[p]
           \/ Advances(p) /\ HeldBy(p)
    BY HeldMoves
  <2>2. CASE held'[p] = {} /\ ~aborted'[p]
    BY <2>2
  <2>3. CASE ~Postgres
    BY <2>1, <2>2, <2>3
  <2>4. CASE Advances(p) /\ HeldBy(p) /\ Postgres
    <3> DEFINE l == line[p]
               n == line'[p]
    <3>0. /\ l \in 1 .. HealthyAt + 4 /\ n \in l + 1 .. HealthyAt + 5 /\ HashAt = 12 /\ IndexAt = 17 /\ HealthyAt = 24 /\ ~Sqlite
      BY <2>4, Numbers DEF Advances, MovesUp
    <3>1. \A b \in {6, 10, 11} : l < b => n <= b
      <4>1. 6 \notin AddsAt /\ 10 \notin AddsAt /\ 11 \notin AddsAt
        BY <3>0 DEF AddsAt
      <4> QED
        BY <2>4, <4>1, Stops
    <3>2. 6 \in CommitsAt /\ 11 \in CommitsAt /\ 10 \notin CommitsAt
      BY <3>0 DEF CommitsAt
    <3>3. held'[p] = {} \/ l \notin CommitsAt
      <4>1. \A k \in AddsAt : k \notin CommitsAt
        BY <3>0 DEF AddsAt, CommitsAt
      <4> QED
        BY <2>4, <3>2, <4>1 DEF HeldBy
    <3> HIDE DEF l, n
    <3>4. aborted'[p] => n = 11 /\ On(10) \in there'
      <4>1. ASSUME aborted'[p] PROVE l = 10 /\ On(10) \in there
        <5>1. (aborted[p] /\ l \notin CommitsAt) \/ (l = 10 /\ On(10) \in there)
          BY <2>4, <4>1 DEF HeldBy, l
        <5> QED
          BY <2>0, <3>2, <5>1 DEF l
      <4>2. l = 10 => n = 11
        BY <3>0, <3>1
      <4> QED
        BY <1>1, <4>1, <4>2
    <3>5. n <= 6 /\ held'[p] # {} => \E t \in All(Tables) : t \in held'[p] /\ t \notin there'
      <4> SUFFICES ASSUME n <= 6, held'[p] # {} PROVE \E t \in All(Tables) : t \in held'[p] /\ t \notin there'
        OBVIOUS
      <4>1. l <= 5 /\ l # 10 /\ l \notin CommitsAt
        BY <3>0, <3>3
      <4>2. CASE held'[p] = held[p]
        <5>1. PICK t \in All(Tables) : t \in held[p] /\ t \notin there
          BY <2>0, <3>0, <4>1, <4>2 DEF l
        <5>2. t \notin there'
          <6> SUFFICES ASSUME t \in there' PROVE FALSE
            OBVIOUS
          <6>1. there' # there
            BY <5>1
          <6>2. DidAdd(p) \/ DidIndex(p) \/ DidCommit(p) \/ DidAdmin(p)
            BY <2>4, <6>1 DEF Advances, DidLook, DidData
          <6>3. l \in IndexesAt \/ l \in CommitsAt \/ l = HealthyAt + 2 => FALSE
            BY <3>0, <4>1 DEF IndexesAt
          <6>4. DidAdd(p) /\ l \in AddsAt
            BY <6>2, <6>3 DEF DidIndex, DidCommit, DidAdmin, DidAdd, l
          <6>5. Delays(l)
            <7>1. l \notin {HashAt + 3, HealthyAt + 4}
              BY <3>0, <4>1
            <7> QED
              BY <1>1, <2>4, <6>4, <7>1, Births DEF Delays
          <6> QED
            BY <6>1, <6>4, <6>5 DEF DidAdd, l
        <5> QED
          BY <4>2, <5>1, <5>2
      <4>3. CASE l \in AddsAt /\ held'[p] = held[p] \union Born(On(l)) /\ On(l) \notin there'
        <5>1. l \in 2 .. 5
          BY <3>0, <4>1, <4>3 DEF AddsAt
        <5>2. On(l) \in All(Tables) /\ On(l) \in Born(On(l))
          BY <1>1, <4>3, <5>1, Births
        <5> QED
          BY <4>3, <5>2
      <4> QED
        BY <2>4, <4>1, <4>2, <4>3 DEF HeldBy, l
    <3>6. n \in 7 .. 11 => held'[p] \subseteq {On(8), On(9), On(10)}
      <4> SUFFICES ASSUME n \in 7 .. 11, held'[p] # {} PROVE held'[p] \subseteq {On(8), On(9), On(10)}
        OBVIOUS
      <4>1. l \in 7 .. 10
        BY <3>0, <3>1, <3>2, <3>3
      <4>2. held[p] \subseteq {On(8), On(9), On(10)}
        BY <2>0, <4>1 DEF l
      <4>3. l \in AddsAt => Born(On(l)) \subseteq {On(8), On(9)}
        <5>1. l \in AddsAt => l \in {8, 9}
          BY <3>0, <4>1 DEF AddsAt
        <5>2. 8 # IndexAt + 2 /\ 9 # IndexAt + 2 /\ 8 \in AddsAt /\ 9 \in AddsAt
          BY <3>0 DEF AddsAt
        <5> QED
          BY <1>1, <5>1, <5>2, Births
      <4> QED
        BY <2>4, <3>3, <4>2, <4>3 DEF HeldBy, l
    <3>7. n > 11 => /\ held'[p] \subseteq Born(On(IndexAt + 2))
                    /\ On(IndexAt + 2) \in held'[p] => FactorColumns[1] \in held'[p]
      <4> SUFFICES ASSUME n > 11, held'[p] # {}
                   PROVE  /\ held'[p] \subseteq Born(On(IndexAt + 2))
                          /\ On(IndexAt + 2) \in held'[p] => FactorColumns[1] \in held'[p]
        OBVIOUS
      <4>1. l > 11
        BY <3>0, <3>1, <3>2, <3>3
      <4>2. /\ held[p] \subseteq Born(On(IndexAt + 2))
            /\ On(IndexAt + 2) \in held[p] => FactorColumns[1] \in held[p]
        BY <2>0, <4>1 DEF l
      <4>3. CASE held'[p] = held[p]
        BY <4>2, <4>3
      <4>4. CASE l \in AddsAt /\ Delays(l) /\ held'[p] = held[p] \union Born(On(l))
        <5>1. On(l)[1] # "row"
          BY <4>4 DEF Delays
        <5>2. l = IndexAt + 2 \/ l = 22
          <6>1. l \notin {HashAt + 3, HealthyAt + 4}
            BY <1>1, <4>4, <5>1, Births
          <6> QED
            BY <3>0, <4>1, <4>4, <6>1 DEF AddsAt
        <5>3. On(22) = FactorColumns[1] /\ 22 # IndexAt + 2 /\ 22 \in AddsAt
          BY <1>1, <3>0, Names DEF AddsAt
        <5>4. Born(On(22)) = {FactorColumns[1]} /\ Born(On(IndexAt + 2)) = {On(IndexAt + 2), FactorColumns[1]}
          BY <1>1, <5>3, Births
        <5> QED
          BY <4>2, <4>4, <5>2, <5>4
      <4> QED
        BY <2>4, <3>0, <3>3, <4>1, <4>3, <4>4 DEF HeldBy, l
    <3>8. n # 0
      BY <3>0
    <3> QED
      BY <2>4, <3>4, <3>5, <3>6, <3>7, <3>8 DEF n
  <2> QED
    BY <2>1, <2>2, <2>3, <2>4
<1> HIDE DEF Ok
<1>6. \A q \in Starters : Ok(q, line'[q], held'[q], aborted'[q], there')
  BY <1>4, <1>5
<1> QED
  BY <1>1, <1>6 DEF Ok, NewHeld

\* Among those that create the tables one at most holds any.
LEMMA HeldByOneKept == ASSUME SchemaInv, NEW p \in Starters, Step(p) PROVE HeldByOne'
<1>1. \A q \in Starters : q # p => line'[q] = line[q] /\ held'[q] = held[q]
  BY DEF Step, Alone
<1>2. \A q, r \in Starters : q # r /\ line[q] <= 6 /\ line[r] <= 6 /\ held[q] # {} => held[r] = {}
  BY DEF SchemaInv, HeldByOne
<1>3. \A q \in Starters : line[q] \in Nat /\ (line[q] = 0 => held[q] = {})
  <2>1. \A q \in Starters : line[q] \in Nat
    BY WhereItIs, Numbers DEF SchemaInv
  <2> QED
    BY <2>1 DEF SchemaInv, NewHeld
<1>4. ASSUME NEW q \in Starters, q # p, line[q] <= 6, line'[p] <= 6, held'[p] # {} PROVE held[q] = {}
  <2>1. Advances(p) /\ HeldBy(p)
    BY <1>4, HeldMoves
  <2>2. line[p] < line'[p] /\ line[p] \in Nat /\ line'[p] \in Nat
    BY <2>1, Numbers DEF Advances, MovesUp
  <2>3. line[p] <= 5
    BY <1>4, <2>2
  <2>4. CASE held'[p] = held[p]
    BY <1>2, <1>4, <2>2, <2>3, <2>4
  <2>5. CASE line[p] \in AddsAt /\ Delays(line[p]) /\ held'[p] = held[p] \union Born(On(line[p])) /\ On(line[p]) \notin there'
    <3>1. DidAdd(p)
      <4>1. line[p] \notin LooksAt /\ line[p] \notin IndexesAt /\ line[p] \notin CommitsAt /\ line[p] # HealthyAt + 2
            /\ line[p] # HashAt /\ line[p] # HashAt + 1 /\ line[p] # HashAt + 4 /\ line[p] # HealthyAt
        <5>1. line[p] \in 2 .. 5
          BY <2>2, <2>3, <2>5, Numbers DEF AddsAt
        <5> QED
          BY <5>1, Numbers DEF LooksAt, IndexesAt, CommitsAt
      <4> QED
        BY <2>1, <4>1 DEF Advances, DidLook, DidIndex, DidCommit, DidData, DidAdmin
    <3>2. CASE line[q] = 0
      BY <1>3, <3>2
    <3>3. CASE line[q] \in 1 .. 6
      <4>1. \A r \in Starters : r # p /\ line[p] <= 6 /\ line[r] \in 1 .. 6 => held[r] = {}
        BY <2>5, <3>1 DEF DidAdd
      <4> QED
        BY <1>4, <2>2, <2>3, <3>3, <4>1
    <3> QED
      BY <1>3, <1>4, <3>2, <3>3
  <2>6. line[p] # 10
    BY <2>2, <2>3
  <2> QED
    BY <1>4, <2>1, <2>4, <2>5, <2>6 DEF HeldBy
<1>5. SUFFICES ASSUME NEW q \in Starters, NEW r \in Starters, q # r, line'[q] <= 6, line'[r] <= 6, held'[q] # {}
               PROVE  held'[r] = {}
  BY DEF HeldByOne
<1>6. CASE q = p
  BY <1>1, <1>4, <1>5, <1>6
<1>7. CASE r = p
  <2>1. held'[r] # {} => held[q] = {}
    BY <1>1, <1>4, <1>5, <1>7
  <2> QED
    BY <1>1, <1>5, <1>7, <2>1
<1>8. CASE q # p /\ r # p
  BY <1>1, <1>2, <1>5, <1>8
<1> QED
  BY <1>6, <1>7, <1>8

\* Which statements fail, and where each of them leads to.
LEMMA FallsBy ==
    ASSUME NEW p, Falls(p)
    PROVE  \/ line[p] \in AddsAt /\ Beaten(p) /\ line[p] \in 2 .. 5 /\ line'[p] = 0
           \/ line[p] \in AddsAt /\ Beaten(p) /\ line[p] \in {8, 9} /\ line'[p] = 12
           \/ line[p] \in AddsAt /\ Beaten(p) /\ Sqlite /\ line[p] \in {13, 15, 16} /\ line'[p] = 17
           \/ line[p] \in AddsAt /\ Beaten(p) /\ Sqlite /\ line[p] = 18 /\ line'[p] = HashAt + 1
           \/ Unhashed(p) /\ line[p] = HashAt /\ line'[p] = HashAt + 1
           \/ Uncovered(p) /\ line[p] = HashAt + 1 /\ line'[p] = HashAt + 2
           \/ Unreadable(p) /\ line[p] = HashAt + 2 /\ line'[p] = HashAt + 5
           \/ line[p] \in AddsAt /\ Beaten(p) /\ line[p] = HashAt + 3 /\ line'[p] = HashAt + 5
           \/ line[p] \in AddsAt /\ Beaten(p) /\ line[p] = IndexAt + 2 /\ line'[p] = HealthyAt + 1
           \/ line[p] \in AddsAt /\ Beaten(p) /\ ~Sqlite /\ line[p] = 22 /\ line'[p] = HealthyAt
           \/ Unreadable(p) /\ line[p] = HealthyAt + 1 /\ line'[p] = 0
           \/ AdminTaken(p) /\ line[p] = HealthyAt + 2 /\ line'[p] = 0
           \/ line[p] \in AddsAt /\ Beaten(p) /\ line[p] = HealthyAt + 4 /\ line'[p] = 0
<1>1. /\ line'[p] = EndOf(line[p]) /\ line[p] \in 1 .. HealthyAt + 4
      /\ Beaten(p) \/ Unreadable(p) \/ Unhashed(p) \/ Uncovered(p) \/ AdminTaken(p)
  BY DEF Falls
<1>2. CASE Beaten(p)
  <2>1. line[p] \in AddsAt
    BY <1>2 DEF Beaten
  <2>2. CASE Sqlite
    BY <1>1, <1>2, <2>1, <2>2, Numbers DEF AddsAt, EndOf
  <2>3. CASE ~Sqlite
    BY <1>1, <1>2, <2>1, <2>3, Numbers DEF AddsAt, EndOf
  <2> QED
    BY <2>2, <2>3
<1>3. CASE Unreadable(p)
  <2>1. line[p] = HashAt + 2 \/ line[p] = HealthyAt + 1
    BY <1>3 DEF Unreadable
  <2>2. CASE Sqlite
    BY <1>1, <1>3, <2>1, <2>2, Numbers DEF EndOf
  <2>3. CASE ~Sqlite
    BY <1>1, <1>3, <2>1, <2>3, Numbers DEF EndOf
  <2> QED
    BY <2>2, <2>3
<1>4. CASE Unhashed(p) \/ Uncovered(p) \/ AdminTaken(p)
  <2>1. /\ Unhashed(p) => line[p] = HashAt
        /\ Uncovered(p) => line[p] = HashAt + 1
        /\ AdminTaken(p) => line[p] = HealthyAt + 2
    BY DEF Unhashed, Uncovered, AdminTaken
  <2>2. CASE Sqlite
    BY <1>1, <1>4, <2>1, <2>2, Numbers DEF EndOf
  <2>3. CASE ~Sqlite
    BY <1>1, <1>4, <2>1, <2>3, Numbers DEF EndOf
  <2> QED
    BY <2>2, <2>3
<1> QED
  BY <1>1, <1>2, <1>3, <1>4

\* At each place the deed is the one of the place.
LEMMA DidByPlace ==
    ASSUME NEW p, Advances(p)
    PROVE  /\ line[p] \in AddsAt => DidAdd(p)
           /\ line[p] \in CommitsAt => DidCommit(p)
           /\ line[p] \in LooksAt => DidLook(p)
           /\ line[p] \in IndexesAt => DidIndex(p)
           /\ line[p] = HealthyAt + 2 => DidAdmin(p)
           /\ line[p] \in {HashAt, HashAt + 1, HashAt + 4, HealthyAt} => DidData(p)
<1> DEFINE l == line[p]
<1>1. /\ l \in AddsAt => /\ l \notin LooksAt /\ l \notin IndexesAt /\ l \notin CommitsAt
                         /\ l \notin {HashAt, HashAt + 1, HashAt + 4, HealthyAt, HealthyAt + 2}
      /\ l \in CommitsAt => /\ l \notin LooksAt /\ l \notin IndexesAt
                            /\ l \notin {HashAt, HashAt + 1, HashAt + 4, HealthyAt, HealthyAt + 2}
      /\ l \in LooksAt => l \notin IndexesAt /\ l \notin {HashAt, HashAt + 1, HashAt + 4, HealthyAt, HealthyAt + 2}
      /\ l \in IndexesAt => l \notin {HashAt, HashAt + 1, HashAt + 4, HealthyAt, HealthyAt + 2}
      /\ HealthyAt + 2 \notin {HashAt, HashAt + 1, HashAt + 4, HealthyAt}
  <2>1. CASE Sqlite
    BY <2>1, Numbers DEF LooksAt, AddsAt, IndexesAt, CommitsAt
  <2>2. CASE ~Sqlite
    BY <2>2, Numbers DEF LooksAt, AddsAt, IndexesAt, CommitsAt
  <2> QED
    BY <2>1, <2>2
<1>2. /\ DidLook(p) \/ DidAdd(p) \/ DidIndex(p) \/ DidCommit(p) \/ DidData(p) \/ DidAdmin(p)
      /\ DidLook(p) => l \in LooksAt
      /\ DidAdd(p) => l \in AddsAt
      /\ DidIndex(p) => l \in IndexesAt
      /\ DidCommit(p) => l \in CommitsAt
      /\ DidData(p) => l \in {HashAt, HashAt + 1, HashAt + 4, HealthyAt}
      /\ DidAdmin(p) => l = HealthyAt + 2
  BY DEF Advances, DidLook, DidAdd, DidIndex, DidCommit, DidData, DidAdmin
<1> QED
  BY <1>1, <1>2

\* What a process goes past is there, or held by it.
LEMMA Passes ==
    ASSUME SchemaInv, NEW p \in Starters, Step(p), Advances(p), NEW k \in AddsAt, line[p] <= k, k < line'[p]
    PROVE  On(k) \in there' \/ (line[p] = k /\ Delays(k) /\ On(k) \in held'[p])
<1>1. engine \in Engines /\ line[p] \in Nat /\ line'[p] \in Nat /\ k \in Nat
  <2>1. k \in Nat
    BY Numbers DEF AddsAt
  <2> QED
    BY <2>1, Numbers DEF SchemaInv, StartTyped, StartTypeOK, Advances, MovesUp
<1>2. CASE line[p] = k
  <2>1. DidAdd(p) /\ On(k) \in Born(On(k))
    BY <1>1, <1>2, DidByPlace, Births
  <2> QED
    BY <1>2, <2>1 DEF DidAdd
<1>3. CASE line[p] < k
  <2>1. HasNone(k, seen'[p])
    BY <1>1, <1>3 DEF Advances, MovesUp
  <2>2. k \notin CommitsAt
    <3>1. CASE Sqlite
      BY <3>1, Numbers DEF AddsAt, CommitsAt
    <3>2. CASE ~Sqlite
      BY <3>2, Numbers DEF AddsAt, CommitsAt
    <3> QED
      BY <3>1, <3>2
  <2>3. On(k) \in seen'[p]
    BY <2>1, <2>2 DEF HasNone
  <2>4. On(k) \in there' \union {Occupied}
    BY <2>3, SeenThereKept DEF SeenThere
  <2>5. On(k) # Occupied
    <3>1. CASE Sqlite
      BY <1>1, <3>1, Names, Numbers DEF AddsAt, Occupied
    <3>2. CASE ~Sqlite
      BY <1>1, <3>2, Names, Numbers DEF AddsAt, Occupied
    <3> QED
      BY <3>1, <3>2
  <2> QED
    BY <2>4, <2>5
<1> QED
  BY <1>1, <1>2, <1>3

\* What is held and then committed is there.
LEMMA StaysOrCommits ==
    ASSUME SchemaInv, NEW p \in Starters, Step(p), Advances(p), line[p] # 11, NEW x \in there \union held[p]
    PROVE  /\ x \in there' \union held'[p]
           /\ line[p] \in CommitsAt => x \in there'
<1>1. there \subseteq there'
  BY Grows DEF SchemaInv
<1>2. CASE line[p] \in CommitsAt
  <2>1. DidCommit(p) /\ ~aborted[p]
    BY <1>2, DidByPlace DEF SchemaInv, NewHeld
  <2> QED
    BY <1>1, <2>1 DEF DidCommit
<1>3. CASE line[p] \notin CommitsAt
  <2>1. held[p] \subseteq held'[p]
    <3>1. ~DidCommit(p)
      BY <1>3 DEF DidCommit
    <3> QED
      BY <3>1 DEF Advances, DidLook, DidAdd, DidIndex, DidData, DidAdmin, Keeps
  <2> QED
    BY <1>1, <1>3, <2>1
<1> QED
  BY <1>2, <1>3

\* The tables are there for whoever has created them.
LEMMA TablesBroughtKept == ASSUME SchemaInv, NEW p \in Starters, Step(p) PROVE TablesBrought'
<1> DEFINE l == line[p]
           n == line'[p]
<1>1. /\ \A k : On(k)' = On(k)
      /\ engine \in Engines /\ there \subseteq there'
  BY Grows, SamePlaces DEF SchemaInv, StartTyped, StartTypeOK
<1>2. \A q \in Starters : /\ \A k \in 2 .. 5 : line[q] > k => On(k) \in there \union held[q]
                          /\ line[q] > 6 => All(Tables) \subseteq there
  BY DEF SchemaInv, TablesBrought
<1>3. \A q \in Starters : q # p => line'[q] = line[q] /\ held'[q] = held[q]
  BY DEF Step, Alone
<1>4. All(Tables) = {On(2), On(3), On(4), On(5)}
  BY <1>1, Names
<1>5. /\ \A k \in 2 .. 5 : n > k => On(k) \in there' \union held'[p]
      /\ n > 6 => All(Tables) \subseteq there'
  <2>1. CASE l > 6
    <3>1. All(Tables) \subseteq there' /\ \A k \in 2 .. 5 : On(k) \in All(Tables)
      BY <1>1, <1>2, <2>1, Births
    <3> QED
      BY <3>1
  <2>2. CASE ~(l > 6) /\ ~Advances(p)
    <3>1. n \in {0, 1}
      <4>1. Falls(p) => n = 0
        BY <2>2, FallsTo, Numbers
      <4> QED
        BY <2>2, <4>1 DEF Step, Begins, Drops
    <3> QED
      BY <3>1
  <2>3. CASE ~(l > 6) /\ Advances(p)
    <3>0. l \in 1 .. 6 /\ n \in Nat /\ n > l
      BY <2>3, Numbers DEF Advances, MovesUp
    <3> HIDE DEF l, n
    <3>1. ASSUME NEW k \in 2 .. 5, n > k PROVE On(k) \in there' \union held'[p]
      <4>1. CASE l > k
        <5>1. On(k) \in there \union held[p] /\ line[p] # 11
          BY <1>2, <3>0, <4>1 DEF l
        <5> QED
          BY <2>3, <5>1, StaysOrCommits
      <4>2. CASE l <= k
        <5>1. k \in AddsAt
          BY DEF AddsAt
        <5> QED
          BY <2>3, <3>1, <4>2, <5>1, Passes DEF l, n
      <4> QED
        BY <3>0, <4>1, <4>2
    <3>2. ASSUME n > 6 PROVE All(Tables) \subseteq there'
      <4>1. CASE l = 6
        <5>1. l \in CommitsAt /\ line[p] # 11
          BY <4>1 DEF CommitsAt, l
        <5>2. \A k \in 2 .. 5 : On(k) \in there \union held[p]
          BY <1>2, <4>1 DEF l
        <5>3. \A k \in 2 .. 5 : On(k) \in there'
          BY <2>3, <5>1, <5>2, StaysOrCommits DEF l
        <5> QED
          BY <1>4, <5>3
      <4>2. CASE l < 6
        <5>1. ~Postgres
          <6>1. 6 \notin AddsAt
            BY Numbers DEF AddsAt
          <6> QED
            BY <2>3, <3>0, <3>2, <4>2, <6>1, Stops DEF l, n
        <5>2. held'[p] = {}
          BY <5>1, HeldMoves
        <5>3. \A k \in 2 .. 5 : On(k) \in there'
          BY <3>0, <3>1, <3>2, <5>2
        <5> QED
          BY <1>4, <5>3
      <4> QED
        BY <3>0, <4>1, <4>2
    <3> QED
      BY <3>1, <3>2
  <2> QED
    BY <2>1, <2>2, <2>3
<1>6. SUFFICES ASSUME NEW q \in Starters
               PROVE  /\ \A k \in 2 .. 5 : line'[q] > k => On(k) \in there' \union held'[q]
                      /\ line'[q] > 6 => All(Tables) \subseteq there'
  BY <1>1 DEF TablesBrought
<1>7. CASE q = p
  BY <1>5, <1>7
<1>8. CASE q # p
  BY <1>1, <1>2, <1>3, <1>8
<1> QED
  BY <1>7, <1>8

\* So are the indexes.
LEMMA IndexesBroughtKept == ASSUME SchemaInv, NEW p \in Starters, Step(p) PROVE IndexesBrought'
<1> DEFINE l == line[p]
           n == line'[p]
           Ok(k, T) == /\ k > IndexAt => On(IndexAt) \in T
                       /\ Sqlite /\ k > 24 => On(24) \in T
<1>1. /\ \A k : On(k)' = On(k)
      /\ there \subseteq there' /\ IndexAt' = IndexAt /\ (Sqlite' <=> Sqlite)
  BY Grows, SamePlaces DEF SchemaInv
<1>2. \A q \in Starters : Ok(line[q], there)
  BY DEF SchemaInv, IndexesBrought
<1>3. \A q \in Starters : q # p => line'[q] = line[q]
  BY DEF Step, Alone
<1>4. Ok(n, there')
  <2>1. CASE Begins(p) \/ Drops(p)
    <3>1. n \in {0, 1}
      BY <2>1 DEF Begins, Drops
    <3> QED
      BY <3>1, Numbers
  <2>2. CASE Falls(p)
    <3>1. n > IndexAt => l > IndexAt
      <4>1. CASE Sqlite
        BY <2>2, <4>1, FallsBy, Numbers
      <4>2. CASE ~Sqlite
        BY <2>2, <4>2, FallsBy, Numbers
      <4> QED
        BY <4>1, <4>2
    <3>2. Sqlite /\ n > 24 => l > 24
      BY <2>2, FallsBy, Numbers
    <3> QED
      BY <1>1, <1>2, <3>1, <3>2
  <2>3. CASE Advances(p)
    <3>1. l \in Nat /\ n \in Nat /\ n > l
      BY <2>3, Numbers DEF Advances, MovesUp
    <3>2. ASSUME NEW b \in IndexesAt, b # 10, n > b, b \in Nat, b \notin AddsAt, b \notin CommitsAt
          PROVE  l > b \/ On(b) \in there'
      <4>1. CASE l < b
        BY <2>3, <3>1, <3>2, <4>1, Stops
      <4>2. CASE l = b
        <5>1. DidIndex(p)
          BY <2>3, <3>2, <4>2, DidByPlace
        <5> QED
          BY <3>2, <4>2, <5>1 DEF DidIndex
      <4> QED
        BY <3>1, <3>2, <4>1, <4>2
    <3>3. IndexAt \in IndexesAt /\ IndexAt # 10 /\ IndexAt \in Nat /\ IndexAt \notin AddsAt /\ IndexAt \notin CommitsAt
      <4>1. CASE Sqlite
        BY <4>1, Numbers DEF IndexesAt, AddsAt, CommitsAt
      <4>2. CASE ~Sqlite
        BY <4>2, Numbers DEF IndexesAt, AddsAt, CommitsAt
      <4> QED
        BY <4>1, <4>2
    <3>4. Sqlite => 24 \in IndexesAt /\ 24 \notin AddsAt /\ 24 \notin CommitsAt
      BY Numbers DEF IndexesAt, AddsAt, CommitsAt
    <3> HIDE DEF l, n
    <3>5. n > IndexAt => On(IndexAt) \in there'
      BY <1>1, <1>2, <3>2, <3>3 DEF l
    <3>6. Sqlite /\ n > 24 => On(24) \in there'
      BY <1>1, <1>2, <3>2, <3>4 DEF l
    <3> QED
      BY <3>5, <3>6
  <2> QED
    BY <2>1, <2>2, <2>3 DEF Step
<1>5. \A q \in Starters : Ok(line'[q], there')
  BY <1>1, <1>2, <1>3, <1>4
<1> QED
  BY <1>1, <1>5 DEF IndexesBrought

\* On PostgreSQL the columns of the reports come with their index.
LEMMA ReportsBroughtKept == ASSUME SchemaInv, NEW p \in Starters, Step(p) PROVE ReportsBrought'
<1> DEFINE l == line[p]
           n == line'[p]
           Ok(k, h, a, s, T) ==
             /\ k = 11 => a \/ On(10) \in h
             /\ k > 11 => On(10) \in T
             /\ \A j \in {8, 9} : k \in 8 .. 10 /\ On(j) \in T \ s => On(10) \in T
<1>1. /\ \A k : On(k)' = On(k)
      /\ there \subseteq there' /\ (Postgres' <=> Postgres) /\ engine \in Engines
  BY Grows, SamePlaces DEF SchemaInv, StartTyped, StartTypeOK
<1>2. SUFFICES ASSUME Postgres
               PROVE  \A q \in Starters : Ok(line'[q], held'[q], aborted'[q], seen'[q], there')
  BY <1>1 DEF ReportsBrought
<1>3. \A q \in Starters : Ok(line[q], held[q], aborted[q], seen[q], there)
  BY <1>2 DEF SchemaInv, ReportsBrought
<1>4. \A q \in Starters : q # p => /\ line'[q] = line[q] /\ held'[q] = held[q] /\ aborted'[q] = aborted[q]
                                   /\ seen'[q] = seen[q]
  BY DEF Step, Alone
<1>5. HashAt = 12 /\ IndexAt = 17 /\ HealthyAt = 24 /\ ~Sqlite
  BY <1>2, Numbers
<1>6. /\ On(8)[1] = "reports" /\ On(9)[1] = "reports" /\ On(7)[1] = "reports" /\ On(10)[1] = "index"
  <2>1. On(7) = ReportColumns[1] /\ On(8) = ReportColumns[1]
    BY <1>1, WhatAbout
  <2> QED
    BY <1>1, <2>1, Names
<1>7. ASSUME NEW q \in Starters, q # p PROVE Ok(line'[q], held'[q], aborted'[q], seen'[q], there')
  <2>1. Ok(line[q], held[q], aborted[q], seen[q], there)
    BY <1>3
  <2>2. ASSUME NEW j \in {8, 9}, line[q] \in 8 .. 10, On(j) \in there' \ seen[q] PROVE On(10) \in there'
    <3>1. CASE On(j) \in there
      BY <1>1, <2>1, <2>2, <3>1
    <3>2. CASE On(j) \notin there
      <4>1. On(j)[1] = "reports"
        BY <1>6, <2>2
      <4>2. CASE DidAdd(p) /\ ~Delays(line[p]) /\ On(j) \in Born(On(line[p])) /\ line[p] > 6
        <5>1. line[p] \in {HashAt + 3, HealthyAt + 4}
          BY <1>1, <1>2, <4>2, Births DEF DidAdd, Delays
        <5>2. Born(On(line[p])) = {On(line[p])} /\ On(line[p])[1] = "row"
          BY <1>1, <1>2, <1>5, <4>2, <5>1, Births DEF DidAdd, Delays
        <5> QED
          BY <4>1, <4>2, <5>2
      <4>3. CASE DidIndex(p) /\ On(j) = On(line[p])
        <5>1. On(line[p])[1] = "index"
          BY <1>1, <1>5, <1>6, <4>3, Names DEF DidIndex, IndexesAt
        <5> QED
          BY <4>1, <4>3, <5>1
      <4>4. CASE DidCommit(p) /\ line[p] = 11 /\ ~aborted[p]
        <5>1. On(10) \in held[p]
          BY <1>3, <4>4
        <5> QED
          BY <4>4, <5>1 DEF DidCommit
      <4>5. CASE On(j) \in Born(On(IndexAt + 2)) \/ On(j) = Admin
        <5>1. On(IndexAt + 2)[1] = "market" /\ FactorColumns[1][1] = "marketdata_stk_factor_pro" /\ Admin[1] = "row"
          BY <1>1, Names DEF Admin
        <5> QED
          BY <1>1, <4>1, <4>5, <5>1, Births
      <4>6. line[q] > 6
        BY <2>2
      <4> QED
        BY <2>2, <3>2, <4>2, <4>3, <4>4, <4>5, <4>6, NewThings
    <3> QED
      BY <3>1, <3>2
  <2> QED
    BY <1>1, <1>4, <1>7, <2>1, <2>2
<1>8. Ok(n, held'[p], aborted'[p], seen'[p], there')
  <2>0. Ok(l, held[p], aborted[p], seen[p], there)
    BY <1>3
  <2>1. CASE Begins(p) \/ Drops(p)
    <3>1. n \in {0, 1}
      BY <2>1 DEF Begins, Drops
    <3> QED
      BY <3>1
  <2>2. CASE Falls(p)
    <3>1. CASE l \in {8, 9} /\ n = 12 /\ Beaten(p)
      <4>1. On(10) \in there
        BY <2>0, <3>1 DEF Beaten
      <4> QED
        BY <1>1, <3>1, <4>1
    <3>2. CASE n = 0 \/ (l > 11 /\ n > 11)
      BY <1>1, <2>0, <3>2
    <3> QED
      BY <1>5, <2>2, <3>1, <3>2, FallsBy
  <2>3. CASE Advances(p)
    <3>0. l \in Nat /\ n \in Nat /\ n > l
      BY <2>3, Numbers DEF Advances, MovesUp
    <3>1. \A b \in {7, 10, 11} : l < b => n <= b
      <4>1. 7 \notin AddsAt /\ 10 \notin AddsAt /\ 11 \notin AddsAt
        BY <1>5 DEF AddsAt
      <4> QED
        BY <1>2, <2>3, <4>1, Stops
    <3>2. n = 11 => On(10) \in held'[p]
      <4> SUFFICES ASSUME n = 11 PROVE On(10) \in held'[p]
        OBVIOUS
      <4>1. l = 10
        <5> HIDE DEF l, n
        <5> QED
          BY <3>0, <3>1
      <4>2. DidIndex(p)
        BY <2>3, <4>1, DidByPlace DEF IndexesAt
      <4> QED
        BY <1>2, <4>1, <4>2 DEF DidIndex
    <3>3. n > 11 => On(10) \in there'
      <4> SUFFICES ASSUME n > 11 PROVE On(10) \in there'
        OBVIOUS
      <4>1. l = 11 \/ l > 11
        <5> HIDE DEF l, n
        <5> QED
          BY <3>0, <3>1
      <4>2. CASE l = 11
        <5>1. DidCommit(p)
          BY <2>3, <4>2, DidByPlace DEF CommitsAt
        <5>2. aborted[p] => On(10) \in there
          BY DEF SchemaInv, NewHeld
        <5> QED
          BY <1>1, <2>0, <4>2, <5>1, <5>2 DEF DidCommit
      <4> QED
        BY <1>1, <2>0, <4>1, <4>2
    <3>4. ASSUME NEW j \in {8, 9}, n \in 8 .. 10, On(j) \in there' \ seen'[p] PROVE On(10) \in there'
      <4>1. l \in {7, 8, 9}
        <5> HIDE DEF l, n
        <5> QED
          BY <3>0, <3>1, <3>4
      <4>2. seen'[p] = Finds(p)
        <5>1. PartOf(l + 1) = PartOf(l) /\ l < HealthyAt + 4
          BY <1>5, <4>1 DEF PartOf
        <5> QED
          BY <2>3, <5>1 DEF Advances, MovesUp
      <4>3. there' = there
        <5>1. CASE l = 7
          BY <2>3, <5>1, DidByPlace DEF LooksAt, DidLook
        <5>2. CASE l \in {8, 9}
          <6>1. DidAdd(p)
            BY <2>3, <5>2, DidByPlace DEF AddsAt
          <6>2. Delays(l)
            BY <1>2, <1>6, <5>2 DEF Delays
          <6> QED
            BY <6>1, <6>2 DEF DidAdd
        <5> QED
          BY <4>1, <5>1, <5>2
      <4>4. CASE l = 7
        <5>1. l \in LooksAt /\ On(j)[1] = On(l)[1]
          BY <1>6, <3>4, <4>4 DEF LooksAt
        <5>2. On(j) \in Finds(p)
          BY <3>4, <4>3, <5>1 DEF Finds
        <5> QED
          BY <3>4, <4>2, <5>2
      <4>5. CASE l \in {8, 9}
        <5>1. l \notin LooksAt
          BY <1>5, <4>5 DEF LooksAt
        <5>2. seen'[p] = seen[p]
          BY <4>2, <5>1 DEF Finds
        <5> QED
          BY <2>0, <3>4, <4>3, <4>5, <5>2
      <4> QED
        BY <4>1, <4>4, <4>5
    <3> QED
      BY <3>2, <3>3, <3>4
  <2> QED
    BY <2>1, <2>2, <2>3 DEF Step
<1> HIDE DEF Ok
<1> QED
  BY <1>7, <1>8

\* The market data is there for whoever is past it, and its columns are, where they are added.
LEMMA MarketBroughtKept == ASSUME SchemaInv, NEW p \in Starters, Step(p) PROVE MarketBrought'
<1> DEFINE l == line[p]
           n == line'[p]
           M == IndexAt + 2
           MT == On(IndexAt + 2)
           FC == FactorColumns[1]
           Ok(k, h, s, T, good) ==
             /\ k > M => MT \in T \union h
             /\ k > M + 1 => MT \in T
             /\ ~Sqlite /\ k = M /\ MT \in T \ s => FC \in T
             /\ ~Sqlite /\ k > 22 => FC \in T \union h
             /\ ~Sqlite /\ k > 23 => FC \in T
             /\ good => MT \in T
<1>1. /\ \A k : On(k)' = On(k)
      /\ there \subseteq there' /\ IndexAt' = IndexAt /\ (Sqlite' <=> Sqlite) /\ engine \in Engines
  BY Grows, SamePlaces DEF SchemaInv, StartTyped, StartTypeOK
<1>2. \A q \in Starters : Ok(line[q], held[q], seen[q], there, healthy[q])
  <2>1. M + 1 = IndexAt + 3
    BY Numbers
  <2> QED
    BY <2>1 DEF SchemaInv, MarketBrought
<1>3. \A q \in Starters : q # p => /\ line'[q] = line[q] /\ held'[q] = held[q] /\ healthy'[q] = healthy[q]
                                   /\ seen'[q] = seen[q]
  BY DEF Step, Alone
<1>4. MT \in Born(MT) /\ FC \in Born(MT) /\ FC # MT /\ M \in AddsAt
      /\ MT[1] = "market" /\ FC[1] = "marketdata_stk_factor_pro"
  BY <1>1, Births, Names DEF AddsAt
<1>5. ASSUME NEW q \in Starters, q # p PROVE Ok(line'[q], held'[q], seen'[q], there', healthy'[q])
  <2>1. Ok(line[q], held[q], seen[q], there, healthy[q])
    BY <1>2
  <2>2. ASSUME ~Sqlite, line[q] = M, MT \in there' \ there PROVE FC \in there'
    <3>1. line[q] > 6
      BY <2>2, Numbers
    <3>2. CASE DidAdd(p) /\ ~Delays(line[p]) /\ MT \in Born(On(line[p])) /\ line[p] > 6
      <4>1. line[p] \in AddsAt
        BY <3>2 DEF DidAdd
      <4>2. line[p] = M
        <5> SUFFICES ASSUME line[p] # M PROVE FALSE
          OBVIOUS
        <5>1. MT = On(line[p])
          BY <1>1, <3>2, <4>1, Births
        <5> QED
          BY <1>1, <1>4, <4>1, <5>1, AddedOnce
      <4> QED
        BY <1>4, <3>2, <4>2 DEF DidAdd
    <3>3. CASE DidIndex(p) /\ MT = On(line[p])
      <4>1. On(line[p])[1] = "index"
        BY <1>1, <2>2, <3>3, Names, Numbers DEF DidIndex, IndexesAt
      <4> QED
        BY <1>4, <3>3, <4>1
    <3>4. CASE MT \in {On(8), On(9), On(10)} \/ MT = Admin
      BY <1>1, <1>4, <3>4, Names DEF Admin
    <3>5. CASE DidCommit(p) /\ line[p] > 11 /\ MT \in held[p]
      <4>1. FC \in held[p] /\ ~aborted[p]
        BY <3>5 DEF SchemaInv, NewHeld
      <4> QED
        BY <3>5, <4>1 DEF DidCommit
    <3> QED
      BY <2>2, <3>1, <3>2, <3>3, <3>4, <3>5, NewThings
  <2> HIDE DEF MT, FC, M
  <2> QED
    BY <1>1, <1>3, <1>5, <2>1, <2>2
<1>6. Ok(n, held'[p], seen'[p], there', healthy'[p])
  <2>0. Ok(l, held[p], seen[p], there, healthy[p])
    BY <1>2
  <2>1. CASE Begins(p)
    <3>1. n = 1 /\ ~healthy'[p]
      BY <2>1 DEF Begins
    <3> QED
      BY <3>1, Numbers
  <2>2. CASE Drops(p) \/ (Falls(p) /\ n = 0)
    <3>1. n = 0 /\ healthy'[p] = healthy[p]
      BY <2>2 DEF Drops, Falls
    <3> QED
      BY <1>1, <2>0, <3>1, Numbers
  <2>3. CASE Falls(p) /\ n # 0
    <3>0. healthy'[p] = healthy[p] /\ held'[p] = {} /\ seen'[p] = {}
      BY <2>3 DEF Falls
    <3>1. CASE l = M /\ Beaten(p) /\ n = HealthyAt + 1
      <4>1. MT \in there /\ (~Sqlite => FC \in there)
        BY <2>0, <3>1 DEF Beaten
      <4> QED
        BY <1>1, <2>0, <3>0, <3>1, <4>1, Numbers
    <3>2. CASE ~Sqlite /\ l = 22 /\ Beaten(p) /\ n = HealthyAt
      <4>1. FC \in there /\ MT \in there
        BY <1>1, <2>0, <3>2, Names, Numbers DEF Beaten
      <4> QED
        BY <1>1, <2>0, <3>0, <3>2, <4>1, Numbers
    <3>3. CASE n < M
      <4>1. n \in Nat
        BY <2>3, FallsTo, Numbers
      <4>2. ~(n > M) /\ ~(n > M + 1) /\ n # M
        BY <3>3, <4>1, Numbers
      <4>3. ~Sqlite => ~(n > 22) /\ ~(n > 23)
        BY <3>3, <4>1, Numbers
      <4>4. healthy'[p] => MT \in there'
        BY <1>1, <2>0, <3>0
      <4> QED
        BY <4>2, <4>3, <4>4
    <3>4. n < M \/ (l = M /\ Beaten(p) /\ n = HealthyAt + 1) \/ (~Sqlite /\ l = 22 /\ Beaten(p) /\ n = HealthyAt)
      <4>1. CASE Sqlite
        BY <2>3, <4>1, FallsBy, Numbers
      <4>2. CASE ~Sqlite
        BY <2>3, <4>2, FallsBy, Numbers
      <4> QED
        BY <4>1, <4>2
    <3> QED
      BY <3>1, <3>2, <3>3, <3>4
  <2>4. CASE Advances(p)
    <3>0. l \in Nat /\ n \in Nat /\ n > l /\ M \in {19, 27} /\ (~Sqlite => M = 19) /\ IndexAt \in Nat
      BY <2>4, Numbers DEF Advances, MovesUp
    <3>c. /\ l > 11 => l # 11
          /\ M + 1 \in CommitsAt /\ M + 1 \notin AddsAt /\ (~Sqlite => 23 \in CommitsAt /\ 23 \notin AddsAt)
      <4>1. CASE Sqlite
        BY <4>1, Numbers DEF CommitsAt, AddsAt
      <4>2. CASE ~Sqlite
        BY <4>2, Numbers DEF CommitsAt, AddsAt
      <4> QED
        BY <4>1, <4>2
    <3>1. n > M => MT \in there' \union held'[p]
      <4>1. CASE l > M
        <5>1. MT \in there \union held[p] /\ line[p] # 11
          BY <2>0, <3>0, <4>1
        <5> QED
          BY <2>4, <5>1, StaysOrCommits
      <4>2. CASE l <= M
        BY <1>4, <2>4, <4>2, Passes
      <4> QED
        BY <3>0, <4>1, <4>2
    <3>2. n > M + 1 => MT \in there'
      <4> SUFFICES ASSUME n > M + 1 PROVE MT \in there'
        OBVIOUS
      <4>1. CASE l > M + 1
        BY <1>1, <2>0, <4>1
      <4>2. CASE l = M + 1
        <5>1. MT \in there \union held[p] /\ line[p] # 11 /\ line[p] \in CommitsAt
          BY <2>0, <3>0, <3>c, <4>2
        <5> QED
          BY <2>4, <5>1, StaysOrCommits
      <4>3. CASE l < M + 1
        <5>1. ~Postgres
          <6>1. M + 1 \in Nat
            BY <3>0
          <6> HIDE DEF M
          <6> QED
            BY <2>4, <3>0, <3>c, <4>3, <6>1, Stops DEF l, n
        <5>2. held'[p] = {} /\ n > M
          BY <3>0, <5>1, HeldMoves
        <5> QED
          BY <3>1, <5>2
      <4> QED
        BY <3>0, <4>1, <4>2, <4>3
    <3>3. ~Sqlite /\ n = M => MT \notin there' \ seen'[p]
      <4> SUFFICES ASSUME ~Sqlite, n = M PROVE MT \notin there' \ seen'[p]
        OBVIOUS
      <4>1. l = 18
        <5>1. 18 \notin AddsAt /\ 18 \notin CommitsAt
          BY <3>0, Numbers DEF AddsAt, CommitsAt
        <5>2. l >= 18
          BY <2>4, <3>0, <5>1, Stops
        <5> QED
          BY <3>0, <5>2
      <4>2. l \in LooksAt /\ PartOf(l + 1) = PartOf(l) /\ l < HealthyAt + 4 /\ l = IndexAt + 1
        BY <4>1, Numbers DEF LooksAt, PartOf
      <4>3. seen'[p] = Finds(p) /\ there' = there
        BY <2>4, <4>2, DidByPlace DEF Advances, MovesUp, DidLook
      <4>4. On(l)[1] = MT[1]
        <5>1. On(IndexAt + 1) = MarketTables[1] /\ MT = MarketTables[1]
          BY <1>1, WhatAbout
        <5> QED
          BY <4>2, <5>1
      <4> QED
        BY <4>2, <4>3, <4>4 DEF Finds
    <3>4. ~Sqlite /\ n > 22 => FC \in there' \union held'[p]
      <4> SUFFICES ASSUME ~Sqlite, n > 22 PROVE FC \in there' \union held'[p]
        OBVIOUS
      <4>1. CASE l > 22
        <5>1. FC \in there \union held[p] /\ line[p] # 11
          BY <2>0, <4>1
        <5> QED
          BY <2>4, <5>1, StaysOrCommits
      <4>2. CASE l <= 22
        <5>1. 22 \in AddsAt /\ On(22) = FC
          BY <1>1, Names, Numbers DEF AddsAt
        <5> QED
          BY <2>4, <4>2, <5>1, Passes
      <4> QED
        BY <3>0, <4>1, <4>2
    <3>5. ~Sqlite /\ n > 23 => FC \in there'
      <4> SUFFICES ASSUME ~Sqlite, n > 23 PROVE FC \in there'
        OBVIOUS
      <4>1. CASE l > 23
        BY <1>1, <2>0, <4>1
      <4>2. CASE l = 23
        <5>1. FC \in there \union held[p] /\ line[p] # 11 /\ line[p] \in CommitsAt
          BY <2>0, <3>c, <4>2
        <5> QED
          BY <2>4, <5>1, StaysOrCommits
      <4>3. CASE l < 23
        <5>1. ~Postgres
          BY <2>4, <3>0, <3>c, <4>3, Stops
        <5>2. held'[p] = {} /\ n > 22
          BY <3>0, <5>1, HeldMoves
        <5> QED
          BY <3>4, <5>2
      <4> QED
        BY <3>0, <4>1, <4>2, <4>3
    <3>6. healthy'[p] => MT \in there'
      <4>1. healthy'[p] => healthy[p] \/ l = HealthyAt
        BY <2>4 DEF Advances
      <4>2. HealthyAt > M + 1
        BY Numbers
      <4> QED
        BY <1>1, <2>0, <4>1, <4>2
    <3> QED
      BY <3>1, <3>2, <3>3, <3>4, <3>5, <3>6
  <2> QED
    BY <2>1, <2>2, <2>3, <2>4 DEF Step
<1> HIDE DEF Ok
<1>7. \A q \in Starters : Ok(line'[q], held'[q], seen'[q], there', healthy'[q])
  BY <1>5, <1>6
<1> QED
  <2>1. M + 1 = IndexAt + 3
    BY Numbers
  <2> QED
    BY <1>1, <1>7, <2>1 DEF MarketBrought, Ok

\* The administrator and the plans are there for whoever is past them.
LEMMA AdminBroughtKept == ASSUME SchemaInv, NEW p \in Starters, Step(p) PROVE AdminBrought'
<1> DEFINE l == line[p]
           n == line'[p]
           A == HealthyAt + 2
           Ok(k, s, T, off) ==
             /\ k = A /\ off => Admin \in s
             /\ k > A => Admin \in T /\ ~off
             /\ k > A + 2 => Plans \in T
<1>1. /\ there \subseteq there' /\ HealthyAt' = HealthyAt /\ engine \in Engines /\ A + 2 = HealthyAt + 4
      /\ A \in {26, 31} /\ A = HealthyAt + 2 /\ HealthyAt \in Nat
  BY Grows, SamePlaces, Numbers DEF SchemaInv, StartTyped, StartTypeOK
<1>2. (astray => Admin \in there) /\ \A q \in Starters : Ok(line[q], seen[q], there, astray)
  BY <1>1 DEF SchemaInv, AdminBrought
<1>3. \A q \in Starters : q # p => line'[q] = line[q] /\ seen'[q] = seen[q]
  BY DEF Step, Alone
<1>4. astray' => astray
  <2>1. CASE Begins(p) \/ Drops(p) \/ Falls(p)
    BY <2>1 DEF Begins, Drops, Falls, dataVars
  <2>2. CASE Advances(p)
    BY <2>2 DEF Advances, DidLook, DidAdd, DidIndex, DidCommit, DidData, DidAdmin, dataVars
  <2> QED
    BY <2>1, <2>2 DEF Step
<1>5. Ok(n, seen'[p], there', astray')
  <2>0. Ok(l, seen[p], there, astray)
    BY <1>2
  <2>1. CASE Begins(p) \/ Drops(p)
    <3>1. n \in {0, 1}
      BY <2>1 DEF Begins, Drops
    <3> QED
      BY <1>1, <3>1
  <2>2. CASE Falls(p)
    <3>1. n < A /\ n \in Nat
      BY <2>2, FallsTo, Numbers
    <3> QED
      BY <1>1, <3>1
  <2>3. CASE Advances(p)
    <3>0. l \in 1 .. A + 2 /\ n \in Nat /\ n > l
      BY <1>1, <2>3, Numbers DEF Advances, MovesUp
    <3>1. \A b \in {A - 1, A} : l < b => n <= b
      <4>1. \A b \in {A - 1, A} : b \in Nat /\ b \notin AddsAt /\ b \notin CommitsAt
        <5>1. CASE Sqlite
          BY <5>1, Numbers DEF AddsAt, CommitsAt
        <5>2. CASE ~Sqlite
          BY <5>2, Numbers DEF AddsAt, CommitsAt
        <5> QED
          BY <5>1, <5>2
      <4> QED
        BY <2>3, <4>1, Stops
    <3>2. n = A /\ astray' => Admin \in seen'[p]
      <4> SUFFICES ASSUME n = A, astray' PROVE Admin \in seen'[p]
        OBVIOUS
      <4>1. l = A - 1 /\ l = HealthyAt + 1
        <5> HIDE DEF l, n, A
        <5> QED
          BY <1>1, <3>0, <3>1
      <4>2. l \in LooksAt /\ PartOf(l + 1) = PartOf(l) /\ l < HealthyAt + 4
        <5>1. CASE Sqlite
          BY <4>1, <5>1, Numbers DEF LooksAt, PartOf
        <5>2. CASE ~Sqlite
          BY <4>1, <5>2, Numbers DEF LooksAt, PartOf
        <5> QED
          BY <5>1, <5>2
      <4>3. seen'[p] = Finds(p)
        BY <2>3, <4>2 DEF Advances, MovesUp
      <4>4. On(l) = Admin
        BY <1>1, <4>1, WhatAbout
      <4> QED
        BY <1>2, <1>4, <4>2, <4>3, <4>4 DEF Finds
    <3>3. n > A => Admin \in there' /\ ~astray'
      <4> SUFFICES ASSUME n > A PROVE Admin \in there' /\ ~astray'
        OBVIOUS
      <4>1. l = A \/ l > A
        <5> HIDE DEF l, n, A
        <5> QED
          BY <1>1, <3>0, <3>1
      <4>2. CASE l > A
        BY <1>1, <1>4, <2>0, <4>2
      <4>3. CASE l = A
        <5>1. DidAdmin(p)
          BY <2>3, <4>3, DidByPlace
        <5>2. CASE Admin \in seen[p]
          <6>1. ~astray' /\ there' = there
            BY <5>1, <5>2 DEF DidAdmin
          <6>2. Admin \in there
            <7>1. seen[p] \subseteq there \union {Occupied}
              BY DEF SchemaInv, SeenThere
            <7>2. Admin # Occupied
              BY DEF Admin, Occupied
            <7> QED
              BY <5>2, <7>1, <7>2
          <6> QED
            BY <6>1, <6>2
        <5>3. CASE Admin \notin seen[p]
          <6>1. astray' = astray /\ there' = there \union {Admin}
            BY <5>1, <5>3 DEF DidAdmin
          <6>2. ~astray
            BY <2>0, <4>3, <5>3
          <6> QED
            BY <6>1, <6>2
        <5> QED
          BY <5>2, <5>3
      <4> QED
        BY <4>1, <4>2, <4>3
    <3>4. n > A + 2 => Plans \in there'
      <4> SUFFICES ASSUME n > A + 2 PROVE Plans \in there'
        OBVIOUS
      <4>1. HealthyAt + 4 \in AddsAt /\ ~Delays(HealthyAt + 4)
        <5>1. HealthyAt + 4 \in AddsAt
          BY DEF AddsAt
        <5> QED
          BY <1>1, <5>1, Births DEF Delays
      <4>2. On(HealthyAt + 4) \in there'
        <5>1. l <= HealthyAt + 4 /\ HealthyAt + 4 < n
          BY <1>1, <3>0
        <5> QED
          BY <2>3, <4>1, <5>1, Passes
      <4>3. On(HealthyAt + 4) = Plans
        BY <1>1, WhatAbout
      <4> QED
        BY <4>2, <4>3
    <3> QED
      BY <3>2, <3>3, <3>4
  <2> QED
    BY <2>1, <2>2, <2>3 DEF Step
<1>6. ASSUME NEW q \in Starters, q # p PROVE Ok(line'[q], seen'[q], there', astray')
  <2>1. Ok(line[q], seen[q], there, astray)
    BY <1>2
  <2> HIDE DEF A
  <2> QED
    BY <1>1, <1>3, <1>4, <1>6, <2>1
<1> HIDE DEF Ok
<1>7. \A q \in Starters : Ok(line'[q], seen'[q], there', astray')
  BY <1>5, <1>6
<1> QED
  BY <1>1, <1>2, <1>4, <1>7 DEF AdminBrought, Ok

-----------------------------------------------------------------------------
(* What an error leaves to the others is done by one of them.              *)

\* The places of the targets.
LEMMA TargetPlaces ==
    ASSUME engine \in Engines, NEW i \in Targets
    PROVE  /\ i \in 8 .. HashAt + 4 /\ HashAt + 4 < HealthyAt /\ i \notin CommitsAt
           /\ i \in AddsAt => ~Delays(i) /\ i \notin {HashAt, HashAt + 1, HashAt + 4}
           /\ i \notin AddsAt => i \in {HashAt, HashAt + 1, HashAt + 4} \/ (i = 10 /\ ~Postgres)
<1>1. On(HashAt + 3)[1] = "row"
  BY Names
<1>2. CASE Sqlite
  BY <1>1, <1>2, Numbers DEF Targets, AddsAt, CommitsAt, Delays
<1>3. CASE ~Sqlite
  BY <1>1, <1>3, Numbers DEF Targets, AddsAt, CommitsAt, Delays
<1> QED
  BY <1>2, <1>3

\* What is done is done.
LEMMA DoneStays ==
    ASSUME SchemaInv, NEW p \in Starters, Step(p), NEW i, DoneAt(i)
    PROVE  DoneAt(i)'
<1>1. HashAt' = HashAt /\ On(i)' = On(i) /\ there \subseteq there'
  BY Grows, SamePlaces DEF SchemaInv
<1>2. (token = "hashed" => token' = "hashed") /\ (secret = "custom" => secret' = "custom") /\ (~orphans => ~orphans')
  <2>1. CASE Begins(p) \/ Drops(p) \/ Falls(p)
    BY <2>1 DEF Begins, Drops, Falls, dataVars
  <2>2. CASE Advances(p)
    BY <2>2 DEF Advances, DidLook, DidAdd, DidIndex, DidCommit, DidData, DidAdmin, dataVars
  <2> QED
    BY <2>1, <2>2 DEF Step
<1> QED
  BY <1>1, <1>2 DEF DoneAt

\* Whoever goes on past a target has done it, or seen it done.
LEMMA GoesPast ==
    ASSUME SchemaInv, NEW p \in Starters, Step(p), Advances(p), NEW i \in Targets, line[p] <= i, i < line'[p]
    PROVE  DoneAt(i)'
<1>1. /\ HashAt' = HashAt /\ On(i)' = On(i) /\ engine \in Engines
      /\ line[p] \in Nat /\ line'[p] \in Nat /\ HashAt \in {12, 19}
  BY Grows, SamePlaces, Numbers DEF SchemaInv, StartTyped, StartTypeOK, Advances, MovesUp
<1>2. /\ i \in Nat /\ i \notin CommitsAt
      /\ i \in AddsAt => ~Delays(i) /\ i \notin {HashAt, HashAt + 1, HashAt + 4}
      /\ i \notin AddsAt => i \in {HashAt, HashAt + 1, HashAt + 4} \/ (i = 10 /\ ~Postgres)
  <2>1. i \in 8 .. HashAt + 4
    BY <1>1, TargetPlaces
  <2> QED
    BY <1>1, <2>1, TargetPlaces
<1>3. CASE i \in AddsAt
  <2>1. On(i) \in there'
    BY <1>2, <1>3, Passes
  <2> QED
    BY <1>1, <1>2, <1>3, <2>1 DEF DoneAt
<1>4. CASE i \notin AddsAt
  <2>1. line[p] = i
    BY <1>1, <1>2, <1>4, Stops
  <2>2. CASE i = 10
    <3>1. DidIndex(p) /\ ~Postgres
      <4>1. ~Postgres
        BY <1>1, <1>2, <1>4, <2>2
      <4> QED
        BY <2>1, <2>2, <4>1, DidByPlace DEF IndexesAt
    <3>2. On(10) \in there'
      BY <2>1, <2>2, <3>1 DEF DidIndex
    <3> QED
      BY <1>1, <2>2, <3>2 DEF DoneAt
  <2>3. CASE i \in {HashAt, HashAt + 1, HashAt + 4}
    <3>1. DidData(p)
      BY <2>1, <2>3, DidByPlace
    <3>2. HashAt + 4 < HealthyAt
      BY Numbers
    <3> QED
      BY <1>1, <2>1, <2>3, <3>1, <3>2 DEF DidData, DoneAt
  <2> QED
    BY <1>2, <1>4, <2>2, <2>3
<1> QED
  BY <1>3, <1>4

\* The pairs, by their places.
LEMMA PairPlaces ==
    ASSUME engine \in Engines, NEW s \in Nat, NEW k \in Nat, NEW i \in Nat, Pair(s, k, i)
    PROVE  /\ s \in LooksAt /\ s \notin AddsAt /\ s \notin CommitsAt /\ s > 6 /\ s < k /\ k < i
           /\ k \in AddsAt /\ k > 6 /\ k # IndexAt + 2 /\ On(k) # FactorColumns[1] /\ (k > 9 \/ ~Postgres)
           /\ ~Delays(k) /\ k \in Targets /\ i \in Targets
           /\ k = s + 1 \/ (s = 7 /\ k = 9 /\ ~Postgres)
           /\ k \notin {HashAt, HashAt + 1, HashAt + 4}
<1>1. On(HashAt + 3)[1] = "row" /\ FactorColumns[1][1] = "marketdata_stk_factor_pro"
  BY Names
<1>2. CASE Sqlite
  <2>1. /\ On(8)[1] = "reports" /\ On(9)[1] = "reports" /\ On(13)[1] = "users"
        /\ On(15)[1] = "user_llm_configs" /\ On(18)[1] = "user_tokens"
    BY <1>2, Names
  <2>2. /\ s \in LooksAt /\ s \notin AddsAt /\ s \notin CommitsAt /\ s > 6 /\ s < k /\ k < i
        /\ k = s + 1 \/ (s = 7 /\ k = 9 /\ ~Postgres)
    BY <1>2, Numbers DEF Pair, LooksAt, AddsAt, CommitsAt
  <2>3. /\ k \in AddsAt /\ k > 6 /\ k # IndexAt + 2 /\ (k > 9 \/ ~Postgres)
        /\ k \in Targets /\ i \in Targets /\ k \notin {HashAt, HashAt + 1, HashAt + 4}
    BY <1>2, Numbers DEF Pair, AddsAt, Targets
  <2>4. On(k) # FactorColumns[1] /\ ~Delays(k)
    BY <1>1, <1>2, <2>1, Numbers DEF Pair, Delays
  <2> QED
    BY <2>2, <2>3, <2>4
<1>3. CASE ~Sqlite
  <2>1. On(8)[1] = "reports" /\ On(9)[1] = "reports"
    BY Names
  <2>2. /\ s \in LooksAt /\ s \notin AddsAt /\ s \notin CommitsAt /\ s > 6 /\ s < k /\ k < i
        /\ k = s + 1 \/ (s = 7 /\ k = 9 /\ ~Postgres)
    BY <1>3, Numbers DEF Pair, LooksAt, AddsAt, CommitsAt
  <2>3. /\ k \in AddsAt /\ k > 6 /\ k # IndexAt + 2 /\ (k > 9 \/ ~Postgres)
        /\ k \in Targets /\ i \in Targets /\ k \notin {HashAt, HashAt + 1, HashAt + 4}
    BY <1>3, Numbers DEF Pair, AddsAt, Targets
  <2>4. On(k) # FactorColumns[1] /\ ~Delays(k)
    BY <1>1, <1>3, <2>1, Numbers DEF Pair, Delays
  <2> QED
    BY <2>2, <2>3, <2>4
<1> QED
  BY <1>2, <1>3

\* There is somebody for a target, or nothing to wait for: one has died, or one is before it.
Left(i) == died > 0 \/ Between(6, i)

\* Whoever moves past a target leaves it done, or leaves it with reason, or to others.
LEMMA Past ==
    ASSUME SchemaInv, NEW p \in Starters, Step(p), NEW i \in Targets, line[p] <= i, line'[p] > i
    PROVE  /\ line[p] > 0 /\ ~Drops(p)
           /\ \/ DoneAt(i)' \/ (Falls(p) /\ Excused(i)')
              \/ /\ Falls(p) /\ skipped'[p] /\ line[p] > 6
                 /\ died > 0 \/ \E r \in Starters : r # p /\ line[p] < line[r] /\ line[r] <= i
<1> DEFINE l == line[p]
           Others == died > 0 \/ \E r \in Starters : r # p /\ l < line[r] /\ line[r] <= i
<1>1. /\ HashAt' = HashAt /\ On(i)' = On(i) /\ engine \in Engines /\ (Sqlite' <=> Sqlite)
      /\ HashAt \in {12, 19} /\ HealthyAt \in Nat /\ IndexAt \in Nat
  BY Grows, SamePlaces, Numbers DEF SchemaInv, StartTyped, StartTypeOK
<1>2. i \in 8 .. HashAt + 4 /\ HashAt + 4 < HealthyAt
  BY <1>1, TargetPlaces
<1>3. CASE Begins(p) \/ Drops(p)
  <2>1. line'[p] \in {0, 1}
    BY <1>3 DEF Begins, Drops
  <2> QED
    BY <1>1, <1>2, <2>1
<1>4. CASE Advances(p)
  <2>1. l > 0 /\ line'[p] # 0
    BY <1>4, Numbers DEF Advances, MovesUp
  <2> QED
    BY <1>4, <2>1, GoesPast DEF Drops
<1>5. CASE Falls(p)
  <2>0. /\ l \in 1 .. HealthyAt + 4 /\ there' = there /\ skipped'[p] /\ token' = token /\ secret' = secret
        /\ orphans' = orphans /\ died \in Nat
    BY <1>5, Grows DEF SchemaInv, Falls, dataVars
  <2>1. Excused(i) => Excused(i)'
    <3>1. TokenColumns[1]' = TokenColumns[1] /\ LlmColumns[1]' = LlmColumns[1] /\ (UsersReadable' <=> UsersReadable)
      BY <2>0 DEF UsersReadable
    <3> QED
      BY <1>1, <2>0, <3>1 DEF Excused
  <2>2. DoneAt(i) => DoneAt(i)'
    BY DoneStays
  <2>3. ASSUME NEW s \in Nat, Pair(s, l, i), Beaten(p) PROVE DoneAt(i) \/ Others
    <3>1. s < l /\ l < i /\ i < HealthyAt /\ s \in LooksAt /\ s > 6
      <4>1. l \in Nat /\ i \in Nat
        BY <1>1, <1>2, <2>0
      <4>2. s < l /\ l < i /\ s > 6 /\ s \in LooksAt
        BY <1>1, <2>3, <4>1, PairPlaces
      <4> QED
        BY <1>1, <1>2, <4>2
    <3>2. s \in 1 .. HealthyAt /\ l \in 1 .. HealthyAt /\ i \in 1 .. HealthyAt /\ l \in s + 1 .. l
      BY <1>1, <1>2, <2>0, <3>1
    <3>3. On(l) \in there \ seen[p]
      BY <2>3 DEF Beaten
    <3>4. CASE died = 0
      <4>1. DoneAt(i) \/ Between(l, i)
        BY <2>3, <3>2, <3>3, <3>4 DEF SchemaInv, BeatenByOne
      <4>2. Between(l, i) => \E r \in Starters : r # p /\ l < line[r] /\ line[r] <= i
        BY <2>0 DEF Between
      <4> QED
        BY <4>1, <4>2
    <3> QED
      BY <2>0, <3>4
  <2>4. Beaten(p) /\ l = i /\ l \in AddsAt => DoneAt(i)
    BY <1>1, TargetPlaces DEF DoneAt, Beaten
  <2>5. l > 6 => l > 0
    BY <2>0
  <2>6. ASSUME DoneAt(i) \/ Excused(i) \/ (l > 6 /\ Others)
        PROVE  \/ DoneAt(i)' \/ (Falls(p) /\ Excused(i)')
               \/ Falls(p) /\ skipped'[p] /\ l > 6 /\ Others
    BY <1>5, <2>0, <2>1, <2>2, <2>6
  <2>7. DoneAt(i) \/ Excused(i) \/ (l > 6 /\ Others)
    <3>1. CASE l \in AddsAt /\ Beaten(p) /\ l \in {8, 9} /\ line'[p] = 12
      <4>1. ~Postgres /\ i \in {8, 9, 10}
        <5>1. CASE Sqlite
          BY <1>2, <3>1, <5>1, Numbers DEF Targets
        <5>2. CASE ~Sqlite
          BY <1>2, <3>1, <5>2, Numbers DEF Targets
        <5> QED
          BY <5>1, <5>2
      <4>2. CASE l < i
        <5>1. PICK s \in Nat : s = 7
          OBVIOUS
        <5>2. Pair(s, l, i)
          BY <3>1, <4>1, <4>2, <5>1 DEF Pair
        <5> QED
          BY <2>3, <3>1, <5>2
      <4> QED
        BY <2>4, <3>1, <4>1, <4>2
    <3>2. CASE l \in AddsAt /\ Beaten(p) /\ Sqlite /\ l \in {13, 15, 16} /\ line'[p] = 17
      <4>1. i \in {13, 15, 16}
        BY <1>2, <3>2, Numbers DEF Targets
      <4>2. CASE l < i
        <5>1. PICK s \in Nat : s = IF l = 13 THEN 12 ELSE 14
          OBVIOUS
        <5>2. Pair(s, l, i)
          BY <3>2, <4>1, <4>2, <5>1 DEF Pair
        <5> QED
          BY <2>3, <3>2, <5>2
      <4> QED
        BY <2>4, <3>2, <4>1, <4>2
    <3>3. CASE l \in AddsAt /\ Beaten(p) /\ Sqlite /\ l = 18 /\ line'[p] = HashAt + 1
      <4>1. i \in {18, 19}
        BY <1>2, <3>3, Numbers
      <4>2. CASE i = 19
        <5>1. PICK s \in Nat : s = 17
          OBVIOUS
        <5>2. Pair(s, l, i)
          BY <3>3, <4>2, <5>1 DEF Pair
        <5> QED
          BY <2>3, <3>3, <5>2
      <4> QED
        BY <2>4, <3>3, <4>1, <4>2
    <3>4. CASE Unhashed(p) /\ l = HashAt /\ line'[p] = HashAt + 1
      <4>1. i = HashAt
        BY <1>1, <1>2, <3>4
      <4> QED
        BY <3>4, <4>1 DEF Unhashed, Excused
    <3>5. CASE Uncovered(p) /\ l = HashAt + 1 /\ line'[p] = HashAt + 2
      <4>1. i = HashAt + 1
        BY <1>1, <1>2, <3>5
      <4> QED
        BY <3>5, <4>1 DEF Uncovered, Excused
    <3>6. CASE Unreadable(p) /\ l = HashAt + 2 /\ line'[p] = HashAt + 5
      <4>1. i = HashAt + 3 \/ i = HashAt + 4
        <5>1. i # HashAt + 2
          BY <1>1, Numbers DEF Targets
        <5> QED
          BY <1>1, <1>2, <3>6, <5>1
      <4> QED
        BY <3>6, <4>1 DEF Unreadable, Excused
    <3>7. CASE l \in AddsAt /\ Beaten(p) /\ l = HashAt + 3 /\ line'[p] = HashAt + 5
      <4>1. i = HashAt + 3 \/ i = HashAt + 4
        BY <1>1, <1>2, <3>7
      <4>2. CASE i = HashAt + 4
        <5>1. PICK s \in Nat : s = HashAt + 2
          BY <1>1
        <5>2. Pair(s, l, i)
          BY <3>7, <4>2, <5>1 DEF Pair
        <5> QED
          BY <1>1, <2>3, <3>7, <5>2
      <4> QED
        BY <2>4, <3>7, <4>1, <4>2
    <3>8. CASE l > HashAt + 4 \/ line'[p] = 0
      BY <1>1, <1>2, <2>0, <3>8
    <3>9. IndexAt + 2 > HashAt + 4 /\ HealthyAt + 1 > HashAt + 4 /\ (~Sqlite => 22 > HashAt + 4)
      BY Numbers
    <3> HIDE DEF l, Others
    <3>10. \/ l \in AddsAt /\ Beaten(p) /\ l \in {8, 9} /\ line'[p] = 12
           \/ l \in AddsAt /\ Beaten(p) /\ Sqlite /\ l \in {13, 15, 16} /\ line'[p] = 17
           \/ l \in AddsAt /\ Beaten(p) /\ Sqlite /\ l = 18 /\ line'[p] = HashAt + 1
           \/ Unhashed(p) /\ l = HashAt /\ line'[p] = HashAt + 1
           \/ Uncovered(p) /\ l = HashAt + 1 /\ line'[p] = HashAt + 2
           \/ Unreadable(p) /\ l = HashAt + 2 /\ line'[p] = HashAt + 5
           \/ l \in AddsAt /\ Beaten(p) /\ l = HashAt + 3 /\ line'[p] = HashAt + 5
           \/ l > HashAt + 4 \/ line'[p] = 0
      BY <1>5, <3>9, FallsBy DEF l
    <3> QED
      BY <3>1, <3>2, <3>3, <3>4, <3>5, <3>6, <3>7, <3>8, <3>10
  <2>8. l > 0 /\ ~Drops(p)
    <3>1. line'[p] # 0
      BY <1>1, <1>2
    <3>2. ~Drops(p)
      BY <3>1 DEF Drops
    <3> QED
      BY <1>1, <2>0, <3>2
  <2> QED
    BY <2>6, <2>7, <2>8
<1> QED
  BY <1>3, <1>4, <1>5 DEF Step

\* A reason only goes with a column of SQLite, and whoever adds it comes to the target later.
LEMMA ExcuseLost ==
    ASSUME SchemaInv, NEW p \in Starters, Step(p), NEW q \in Starters, line[q] > 6, NEW i \in Targets,
           Excused(i), ~Excused(i)'
    PROVE  /\ Sqlite /\ line[p] \in {13, 15, 16, 18} /\ On(line[p]) \notin there
           /\ line[p] < HashAt /\ HashAt <= i /\ line[p] < line'[p] /\ line'[p] <= HashAt
<1>1. /\ HashAt' = HashAt /\ (Sqlite' <=> Sqlite) /\ HashAt \in Nat
      /\ TokenColumns[1]' = TokenColumns[1] /\ LlmColumns[1]' = LlmColumns[1] /\ UserColumns' = UserColumns
  <2>1. UserColumns' = UserColumns
    OBVIOUS
  <2> QED
    BY <2>1, Grows, SamePlaces, Numbers DEF SchemaInv
<1>2. \E x \in {TokenColumns[1], LlmColumns[1]} \union UserColumns : x \in there' \ there
  <2>1. CASE i = HashAt
    BY <1>1, <2>1 DEF Excused
  <2>2. CASE i = HashAt + 1
    BY <1>1, <2>2 DEF Excused
  <2>3. CASE i \in {HashAt + 3, HashAt + 4}
    <3>1. ~UsersReadable /\ UsersReadable'
      BY <1>1, <2>3 DEF Excused
    <3> QED
      BY <1>1, <3>1 DEF UsersReadable
  <2> QED
    BY <2>1, <2>2, <2>3 DEF Excused
<1>3. PICK x \in {TokenColumns[1], LlmColumns[1]} \union UserColumns : x \in there' \ there
  BY <1>2
<1>4. Sqlite /\ Advances(p) /\ DidAdd(p) /\ line[p] \in {13, 15, 16, 18} /\ x = On(line[p])
  BY <1>3, NewColumn
<1>5. HashAt = 19 /\ HashAt \notin AddsAt /\ HashAt \notin CommitsAt
  BY <1>4, Numbers DEF AddsAt, CommitsAt
<1>6. line'[p] <= HashAt
  <2>1. HashAt > line[p]
    BY <1>4, <1>5
  <2> QED
    BY <1>1, <1>4, <1>5, <2>1, Stops
<1>7. line[p] < line'[p]
  BY <1>4, Numbers DEF Advances, MovesUp
<1>8. HashAt <= i
  BY <1>5 DEF Excused
<1> QED
  BY <1>3, <1>4, <1>5, <1>6, <1>7, <1>8

\* Somebody stays for a target until it is done.
LEMMA LeftStays ==
    ASSUME SchemaInv, NEW p \in Starters, Step(p), NEW i \in Targets, Left(i)
    PROVE  Left(i)' \/ DoneAt(i)' \/ Excused(i)'
<1>1. /\ died \in Nat /\ (died' = died \/ (Drops(p) /\ died' = died + 1)) /\ engine \in Engines
      /\ HashAt \in Nat /\ HealthyAt \in Nat
  BY Grows, Numbers DEF SchemaInv, StartTyped, StartTypeOK
<1>2. i \in 8 .. HashAt + 4 /\ HashAt + 4 < HealthyAt
  BY <1>1, TargetPlaces
<1>3. \A r \in Starters : r # p => line'[r] = line[r]
  BY DEF Step, Alone
<1>4. CASE died > 0
  BY <1>1, <1>4 DEF Left
<1>5. CASE Between(6, i)
  <2>1. PICK r \in Starters : 6 < line[r] /\ line[r] <= i
    BY <1>5 DEF Between
  <2>2. CASE r # p
    BY <1>3, <2>1, <2>2 DEF Left, Between
  <2>3. CASE r = p /\ line'[p] > i
    <3>1. \/ DoneAt(i)' \/ Excused(i)' \/ died > 0
          \/ \E b \in Starters : b # p /\ line[p] < line[b] /\ line[b] <= i
      BY <2>1, <2>3, Past
    <3>2. ASSUME NEW b \in Starters, b # p, line[p] < line[b], line[b] <= i PROVE Left(i)'
      <4>1. 6 < line'[b] /\ line'[b] <= i
        <5>1. line[b] \in Nat /\ line[p] \in Nat
          BY <1>1, WhereItIs DEF SchemaInv
        <5> QED
          BY <1>3, <2>1, <2>3, <3>2, <5>1
      <4> QED
        BY <4>1 DEF Left, Between
    <3> QED
      BY <1>4, <3>1, <3>2
  <2>4. CASE r = p /\ ~(line'[p] > i)
    <3>0. line[p] \in 7 .. HealthyAt
      <4>1. line[p] \in Nat
        BY <1>1, WhereItIs DEF SchemaInv
      <4> QED
        BY <1>1, <1>2, <2>1, <2>4, <4>1
    <3>1. CASE Drops(p)
      <4>1. died' > 0
        BY <1>1, <3>1 DEF Drops
      <4> QED
        BY <4>1 DEF Left
    <3>2. CASE Falls(p) \/ Advances(p)
      <4>1. line'[p] \in Nat /\ line'[p] > line[p]
        <5>1. CASE Falls(p)
          <6>1. line'[p] \in line[p] + 1 .. HealthyAt + 1
            BY <3>0, <5>1, FallsTo
          <6> QED
            BY <1>1, <3>0, <6>1
        <5>2. CASE Advances(p)
          BY <1>1, <5>2 DEF Advances, MovesUp
        <5> QED
          BY <3>2, <5>1, <5>2
      <4>2. 6 < line'[p] /\ line'[p] <= i
        BY <1>1, <1>2, <2>4, <3>0, <4>1
      <4> QED
        BY <4>2 DEF Left, Between
    <3>3. CASE Begins(p)
      BY <3>0, <3>3 DEF Begins
    <3> QED
      BY <3>1, <3>2, <3>3 DEF Step
  <2> QED
    BY <2>2, <2>3, <2>4
<1> QED
  BY <1>4, <1>5 DEF Left

\* What a process has left is done, or left with reason, or left to another.
LEMMA NothingLostKept == ASSUME SchemaInv, NEW p \in Starters, Step(p) PROVE NothingLost'
<1>1. /\ Targets' = Targets /\ engine \in Engines /\ HashAt \in Nat /\ HealthyAt \in Nat /\ died \in Nat
      /\ died' = died \/ died' = died + 1
  BY Grows, SamePlaces, Numbers DEF SchemaInv, StartTyped, StartTypeOK
<1>2. \A r \in Starters : r # p => line'[r] = line[r] /\ skipped'[r] = skipped[r]
  BY DEF Step, Alone
<1>3. \A q \in Starters : \A i : Owed(q, i) <=> skipped[q] /\ Left(i)
  BY DEF Owed, Left
<1>4. \A q \in Starters : \A i : Owed(q, i)' <=> skipped'[q] /\ Left(i)'
  BY DEF Owed, Left
<1>5. SUFFICES ASSUME NEW q \in Starters, NEW i \in Targets, line'[q] > i
               PROVE  DoneAt(i)' \/ Excused(i)' \/ (skipped'[q] /\ Left(i)')
  BY <1>1, <1>4 DEF NothingLost
<1>6. i \in 8 .. HashAt + 4
  BY <1>1, TargetPlaces
<1>7. line[q] \in Nat /\ line[p] \in Nat
  BY <1>1, WhereItIs DEF SchemaInv
<1>8. CASE q = p /\ line[p] <= i
  <2>1. \/ DoneAt(i)' \/ Excused(i)'
        \/ /\ skipped'[p] /\ line[p] > 6 /\ ~Drops(p)
           /\ died > 0 \/ \E r \in Starters : r # p /\ line[p] < line[r] /\ line[r] <= i
    BY <1>5, <1>8, Past
  <2>2. ASSUME line[p] > 6, died > 0 \/ \E r \in Starters : r # p /\ line[p] < line[r] /\ line[r] <= i
        PROVE  Left(i)'
    <3>1. CASE died > 0
      BY <1>1, <3>1 DEF Left
    <3>2. CASE \E r \in Starters : r # p /\ line[p] < line[r] /\ line[r] <= i
      <4>1. PICK r \in Starters : r # p /\ line[p] < line[r] /\ line[r] <= i
        BY <3>2
      <4>2. line[r] \in Nat
        BY <1>1, WhereItIs DEF SchemaInv
      <4>3. 6 < line'[r] /\ line'[r] <= i
        BY <1>2, <1>7, <2>2, <4>1, <4>2
      <4> QED
        BY <4>3 DEF Left, Between
    <3> QED
      BY <2>2, <3>1, <3>2
  <2> QED
    BY <1>8, <2>1, <2>2
<1>9. ASSUME line[q] > i PROVE DoneAt(i)' \/ Excused(i)' \/ (skipped'[q] /\ Left(i)')
  <2>0. line[q] > 6
    BY <1>1, <1>6, <1>7, <1>9
  <2>1. DoneAt(i) \/ Excused(i) \/ (skipped[q] /\ Left(i))
    BY <1>3, <1>9 DEF SchemaInv, NothingLost
  <2>2. CASE DoneAt(i)
    BY <2>2, DoneStays
  <2>3. CASE Excused(i)
    <3> SUFFICES ASSUME ~Excused(i)' PROVE skipped'[q] /\ Left(i)'
      OBVIOUS
    <3>1. /\ Sqlite /\ line[p] \in {13, 15, 16, 18} /\ On(line[p]) \notin there
          /\ line[p] < HashAt /\ HashAt <= i /\ line[p] < line'[p] /\ line'[p] <= HashAt
      BY <2>0, <2>3, ExcuseLost
    <3>2. q # p
      BY <1>1, <1>6, <1>7, <1>9, <3>1
    <3>3. HashAt = 19
      BY <3>1, Numbers
    <3>4. line[p] \in Targets /\ ~DoneAt(line[p]) /\ ~Excused(line[p]) /\ line[q] > line[p]
      <4>1. line[p] \in Targets
        BY <3>1 DEF Targets
      <4>2. ~DoneAt(line[p])
        BY <3>1, <3>3 DEF DoneAt
      <4>3. ~Excused(line[p])
        BY <3>1, <3>3 DEF Excused
      <4>4. line[q] > line[p]
        BY <1>6, <1>7, <1>9, <3>1, <3>3
      <4> QED
        BY <4>1, <4>2, <4>3, <4>4
    <3>5. Owed(q, line[p])
      BY <3>4 DEF SchemaInv, NothingLost
    <3>6. skipped'[q]
      BY <1>2, <3>2, <3>5 DEF Owed
    <3>7. 6 < line'[p] /\ line'[p] <= i
      <4>1. line'[p] \in Nat
        <5>1. ~Falls(p) \/ line'[p] \in Nat
          BY <1>1, FallsTo
        <5> QED
          BY <1>1, <5>1 DEF Step, Begins, Drops, Advances, MovesUp
      <4> QED
        BY <1>6, <3>1, <3>3, <4>1
    <3> QED
      BY <3>6, <3>7 DEF Left, Between
  <2>4. CASE skipped[q] /\ Left(i)
    <3>1. skipped'[q]
      <4>1. CASE q # p
        BY <1>2, <2>4, <4>1
      <4>2. CASE q = p
        <5>1. ~Begins(p)
          BY <2>0, <4>2 DEF Begins
        <5> QED
          BY <2>4, <4>2, <5>1 DEF Step, Drops, Falls, Advances, MovesUp
      <4> QED
        BY <4>1, <4>2
    <3> QED
      BY <2>4, <3>1, LeftStays
  <2> QED
    BY <2>1, <2>2, <2>3, <2>4
<1>10. CASE q # p
  BY <1>2, <1>5, <1>9, <1>10
<1>11. line[p] <= i \/ line[p] > i
  BY <1>1, <1>6, <1>7
<1> QED
  BY <1>8, <1>9, <1>10, <1>11

\* What a failure leaves out is done, or somebody is between, and stays so.
LEMMA BetweenStays ==
    ASSUME SchemaInv, NEW p \in Starters, Step(p), died' = 0, NEW s \in Nat, NEW k \in Nat, NEW i \in Nat,
           Pair(s, k, i), On(k) \in there, DoneAt(i) \/ Between(k, i)
    PROVE  DoneAt(i)' \/ Between(k, i)'
<1>1. /\ died = 0 /\ ~Drops(p) /\ engine \in Engines /\ HashAt \in Nat /\ HealthyAt \in Nat
      /\ there \subseteq there' /\ HashAt' = HashAt
  BY Grows, SamePlaces, Numbers DEF SchemaInv, StartTyped, StartTypeOK, Drops
<1>2. k > 6 /\ k < i /\ i \in Targets
  BY <1>1, PairPlaces
<1>3. i \in 8 .. HashAt + 4 /\ HashAt + 4 < HealthyAt
  BY <1>1, <1>2, TargetPlaces
<1>4. \A r \in Starters : line[r] \in Nat /\ (r # p => line'[r] = line[r])
  BY <1>1, WhereItIs DEF SchemaInv, Step, Alone
<1>5. CASE DoneAt(i)
  BY <1>5, DoneStays
<1>6. ASSUME NEW r \in Starters, k < line[r], line[r] <= i PROVE DoneAt(i)' \/ Between(k, i)'
  <2>1. CASE r # p
    BY <1>4, <1>6, <2>1 DEF Between
  <2>2. CASE r = p /\ line'[p] > i
    <3>1. \/ DoneAt(i)' \/ (Falls(p) /\ Excused(i)')
          \/ \E b \in Starters : b # p /\ line[p] < line[b] /\ line[b] <= i
      BY <1>1, <1>2, <1>6, <2>2, Past
    <3>2. ASSUME NEW b \in Starters, b # p, line[p] < line[b], line[b] <= i PROVE Between(k, i)'
      <4>1. k < line'[b] /\ line'[b] <= i
        BY <1>4, <1>6, <2>2, <3>2
      <4> QED
        BY <4>1 DEF Between
    <3>3. ~(Falls(p) /\ Excused(i)')
      <4>1. CASE i = HashAt + 4
        <5>1. k = HashAt + 3
          <6>1. CASE Sqlite
            BY <4>1, <6>1, Numbers DEF Pair
          <6>2. CASE ~Sqlite
            BY <4>1, <6>2, Numbers DEF Pair
          <6> QED
            BY <6>1, <6>2
        <5>2. line[p] = HashAt + 4
          BY <1>1, <1>4, <1>6, <2>2, <4>1, <5>1
        <5>3. ~Falls(p)
          <6>1. HashAt + 4 \notin AddsAt /\ HashAt + 4 < HealthyAt
            <7>1. CASE Sqlite
              BY <7>1, Numbers DEF AddsAt
            <7>2. CASE ~Sqlite
              BY <7>2, Numbers DEF AddsAt
            <7> QED
              BY <7>1, <7>2
          <6> QED
            BY <1>1, <5>2, <6>1 DEF Falls, Beaten, Unreadable, Unhashed, Uncovered, AdminTaken
        <5> QED
          BY <5>3
      <4>2. CASE i = HashAt
        <5>1. Sqlite /\ k = 18
          <6>1. CASE Sqlite
            BY <4>2, <6>1, Numbers DEF Pair
          <6>2. CASE ~Sqlite
            BY <4>2, <6>2, Numbers DEF Pair
          <6> QED
            BY <6>1, <6>2
        <5>2. TokenColumns[1] \in there'
          BY <1>1, <5>1, Names
        <5> QED
          BY <1>1, <4>2, <5>2 DEF Excused
      <4>3. CASE i # HashAt /\ i # HashAt + 4
        <5>1. i # HashAt + 1 /\ i # HashAt + 3
          <6>1. CASE Sqlite
            BY <4>3, <6>1, Numbers DEF Pair
          <6>2. CASE ~Sqlite
            BY <4>3, <6>2, Numbers DEF Pair
          <6> QED
            BY <6>1, <6>2
        <5> QED
          BY <1>1, <4>3, <5>1 DEF Excused
      <4> QED
        BY <4>1, <4>2, <4>3
    <3> QED
      BY <3>1, <3>2, <3>3
  <2>3. CASE r = p /\ ~(line'[p] > i)
    <3>1. line[p] \in 7 .. HealthyAt
      BY <1>1, <1>2, <1>3, <1>4, <1>6, <2>3
    <3>2. Falls(p) \/ Advances(p)
      BY <1>1, <3>1 DEF Step, Begins
    <3>3. line'[p] \in Nat /\ line'[p] > line[p]
      <4>1. CASE Falls(p)
        <5>1. line'[p] \in line[p] + 1 .. HealthyAt + 1
          BY <3>1, <4>1, FallsTo
        <5> QED
          BY <1>1, <3>1, <5>1
      <4>2. CASE Advances(p)
        BY <1>1, <4>2 DEF Advances, MovesUp
      <4> QED
        BY <3>2, <4>1, <4>2
    <3>4. k < line'[p] /\ line'[p] <= i
      BY <1>3, <1>4, <1>6, <2>3, <3>3
    <3> QED
      BY <3>4 DEF Between
  <2> QED
    BY <2>1, <2>2, <2>3
<1> QED
  BY <1>5, <1>6 DEF Between

\* Whoever will be beaten was beaten by one that goes on.
LEMMA BeatenByOneKept == ASSUME SchemaInv, NEW p \in Starters, Step(p) PROVE BeatenByOne'
<1>1. /\ HealthyAt' = HealthyAt /\ engine \in Engines /\ HashAt \in Nat /\ HealthyAt \in Nat /\ died \in Nat
      /\ there \subseteq there'
      /\ \A k : On(k)' = On(k)
      /\ \A s, k, i : Pair(s, k, i)' <=> Pair(s, k, i)
  BY Grows, SamePlaces, Numbers DEF SchemaInv, StartTyped, StartTypeOK
<1>2. SUFFICES ASSUME died' = 0, NEW q \in Starters, NEW s \in 1 .. HealthyAt, NEW k \in 1 .. HealthyAt,
                      NEW i \in 1 .. HealthyAt, Pair(s, k, i), line'[q] \in s + 1 .. k, On(k) \in there' \ seen'[q]
               PROVE  DoneAt(i)' \/ Between(k, i)'
  BY <1>1 DEF BeatenByOne
<1>3. died = 0 /\ ~Drops(p)
  BY <1>1, <1>2, Grows DEF SchemaInv, Drops
<1>4. s \in Nat /\ k \in Nat /\ i \in Nat
  BY <1>1
<1>5. /\ s \in LooksAt /\ s \notin AddsAt /\ s \notin CommitsAt /\ s > 6 /\ s < k /\ k < i
      /\ k \in AddsAt /\ k > 6 /\ k # IndexAt + 2 /\ On(k) # FactorColumns[1] /\ (k > 9 \/ ~Postgres)
      /\ k \in Targets /\ i \in Targets
      /\ k = s + 1 \/ (s = 7 /\ k = 9 /\ ~Postgres)
  BY <1>1, <1>2, <1>4, PairPlaces
<1>6. ASSUME NEW r \in Starters, line[r] \in s + 1 .. k, On(k) \in there \ seen[r] PROVE DoneAt(i)' \/ Between(k, i)'
  <2>1. DoneAt(i) \/ Between(k, i)
    BY <1>2, <1>3, <1>6 DEF SchemaInv, BeatenByOne
  <2> QED
    BY <1>2, <1>4, <1>6, <2>1, BetweenStays
<1>7. CASE q # p
  <2>1. line[q] \in s + 1 .. k /\ seen'[q] = seen[q] /\ line[q] > 6
    BY <1>2, <1>4, <1>5, <1>7 DEF Step, Alone
  <2>2. CASE On(k) \in there
    BY <1>2, <1>6, <2>1, <2>2
  <2>3. CASE On(k) \notin there
    <3>1. Advances(p) /\ DidAdd(p) /\ line[p] = k
      BY <1>2, <1>5, <2>1, <2>3, NewAtPlace
    <3>2. line'[p] > k /\ line'[p] \in Nat
      BY <1>1, <3>1 DEF Advances, MovesUp
    <3>3. CASE line'[p] <= i
      BY <3>2, <3>3 DEF Between
    <3>4. CASE line'[p] > i
      BY <1>4, <1>5, <3>1, <3>4, GoesPast
    <3> QED
      BY <1>4, <3>2, <3>3, <3>4
  <2> QED
    BY <2>2, <2>3
<1>8. CASE q = p
  <2>1. Advances(p)
    <3>1. line'[p] \in s + 1 .. k
      BY <1>2, <1>8
    <3>2. ~Begins(p)
      BY <1>4, <1>5, <3>1 DEF Begins
    <3>3. ~Falls(p)
      <4> SUFFICES ASSUME Falls(p) PROVE FALSE
        OBVIOUS
      <4>1. line'[p] \in {0, 12, HashAt + 1, HashAt + 2, HashAt + 5, HealthyAt + 1, HealthyAt} \/ (Sqlite /\ line'[p] = 17)
        BY FallsBy
      <4>2. CASE Sqlite
        BY <1>2, <1>5, <3>1, <4>1, <4>2, Numbers DEF Pair
      <4>3. CASE ~Sqlite
        BY <1>2, <1>5, <3>1, <4>1, <4>3, Numbers DEF Pair
      <4> QED
        BY <4>2, <4>3
    <3> QED
      BY <1>3, <3>2, <3>3 DEF Step
  <2>2. line[p] \in Nat /\ line'[p] \in Nat /\ line'[p] > line[p] /\ line'[p] \in s + 1 .. k
    BY <1>1, <1>2, <1>8, <2>1 DEF Advances, MovesUp
  <2>3. line[p] >= s
    <3>1. ~(s > line[p])
      <4>1. s > line[p] => line'[p] <= s
        BY <1>4, <1>5, <2>1, Stops
      <4> QED
        BY <1>4, <2>2, <4>1
    <3> QED
      BY <1>4, <2>2, <3>1
  <2>4. seen'[p] = Finds(p)
    <3>1. line[p] \in s .. k - 1
      BY <1>4, <2>2, <2>3
    <3>2. PartOf(line[p] + 1) = PartOf(line[p]) /\ line[p] < HealthyAt + 4
      <4>1. CASE Sqlite
        BY <1>2, <3>1, <4>1, Numbers DEF Pair, PartOf
      <4>2. CASE ~Sqlite
        BY <1>2, <3>1, <4>2, Numbers DEF Pair, PartOf
      <4> QED
        BY <4>1, <4>2
    <3> QED
      BY <2>1, <3>2 DEF Advances, MovesUp
  <2>5. CASE line[p] = s
    <3>1. DidLook(p) /\ there' = there
      BY <1>5, <2>1, <2>5, DidByPlace DEF DidLook
    <3>2. On(s)[1] = On(k)[1]
      <4>1. On(7)[1] = On(9)[1] /\ On(7)[1] = On(8)[1] /\ On(HashAt + 2)[1] = On(HashAt + 3)[1]
        <5>1. On(7) = ReportColumns[1] /\ On(8) = ReportColumns[1]
          BY <1>1, WhatAbout
        <5>2. On(HashAt + 2) = Legacy /\ On(HashAt + 3) = Legacy
          BY <1>1, WhatAbout
        <5>3. On(8)[1] = "reports" /\ On(9)[1] = "reports"
          BY <1>1, Names
        <5> QED
          BY <5>1, <5>2, <5>3
      <4>2. CASE Sqlite
        <5>1. On(12) = LoginColumns[1] /\ On(13) = LoginColumns[1] /\ On(14) = LlmColumns[1] /\ On(15) = LlmColumns[1]
          BY <1>1, <4>2, WhatAbout
        <5>2. On(17) = TokenColumns[1] /\ On(18) = TokenColumns[1]
          BY <1>1, <4>2, WhatAbout
        <5>3. On(12)[1] = On(13)[1] /\ On(14)[1] = On(15)[1] /\ On(17)[1] = On(18)[1]
          BY <5>1, <5>2
        <5> QED
          BY <1>2, <1>5, <4>1, <4>2, <5>3 DEF Pair
      <4>3. CASE ~Sqlite
        BY <1>2, <1>5, <4>1, <4>3 DEF Pair
      <4> QED
        BY <4>2, <4>3
    <3>3. On(k) \in Finds(p)
      BY <1>2, <1>5, <1>8, <2>5, <3>1, <3>2 DEF Finds
    <3> QED
      BY <1>2, <1>8, <2>4, <3>3
  <2>6. CASE line[p] > s
    <3>1. s = 7 /\ k = 9 /\ line[p] = 8 /\ ~Postgres
      BY <1>4, <1>5, <2>2, <2>6
    <3>2. DidAdd(p) /\ ~Delays(8)
      BY <2>1, <3>1, DidByPlace DEF AddsAt, Delays
    <3>3. there' = there \union {On(8)}
      <4>1. 8 \in AddsAt /\ 8 # IndexAt + 2
        BY Numbers DEF AddsAt
      <4>2. Born(On(8)) = {On(8)}
        BY <1>1, <4>1, Births
      <4> QED
        BY <3>1, <3>2, <4>2 DEF DidAdd
    <3>4. On(9) # On(8) /\ 8 \notin LooksAt
      BY <1>1, Names, Numbers DEF LooksAt
    <3>5. seen'[p] = seen[p]
      BY <2>4, <3>1, <3>4 DEF Finds
    <3>6. line[p] \in s + 1 .. k /\ On(k) \in there \ seen[p]
      BY <1>2, <1>8, <3>1, <3>3, <3>4, <3>5
    <3> QED
      BY <1>6, <3>6
  <2> QED
    BY <1>4, <2>2, <2>3, <2>5, <2>6
<1> QED
  BY <1>7, <1>8

-----------------------------------------------------------------------------
(* Not all of them fail.                                                   *)

\* What keeps them all from starting only goes as one of them gets past the tables.
LEMMA HopeLost ==
    ASSUME SchemaInv, NEW p \in Starters, Step(p), Hopeless, ~Hopeless'
    PROVE  Advances(p) /\ line'[p] > 5
<1>1. engine \in Engines /\ there \subseteq there'
  BY Grows DEF SchemaInv, StartTyped, StartTypeOK
<1>2. Advances(p)
  <2>1. CASE Begins(p) \/ Drops(p) \/ Falls(p)
    BY <2>1 DEF Begins, Drops, Falls, dataVars, Hopeless, UsersReadable
  <2> QED
    BY <2>1 DEF Step
<1>3. line[p] \in Nat /\ line'[p] \in Nat /\ line'[p] > line[p] /\ line[p] > 0
  BY <1>2, Numbers DEF Advances, MovesUp
<1>4. CASE line[p] >= 5
  BY <1>2, <1>3, <1>4
<1>5. CASE line[p] < 5
  <2>1. line[p] \in LooksAt \/ line[p] \in AddsAt
    BY <1>3, <1>5 DEF LooksAt, AddsAt
  <2>2. DidLook(p) \/ DidAdd(p)
    BY <1>2, <2>1, DidByPlace
  <2>3. dataVars' = dataVars
    BY <2>2 DEF DidLook, DidAdd
  <2>4. UsersReadable' /\ ~UsersReadable
    BY <2>3 DEF Hopeless, dataVars
  <2>5. PICK x \in UserColumns : x \in there' \ there
    BY <2>4 DEF UsersReadable
  <2>6. DidAdd(p) /\ x \in Born(On(line[p])) /\ line[p] \in AddsAt
    BY <2>2, <2>5 DEF DidLook, DidAdd
  <2>7. line[p] = 2 \/ line[p] = 3 \/ line[p] = 4
    BY <1>3, <1>5, <2>6, Numbers DEF AddsAt
  <2>8. x[1] = "users"
    BY <1>1, <2>5, Names
  <2>9. /\ \A y \in All(ReportColumns) \union All(ReportIndexes) \union All(LlmColumns)
                     \union All(TokenColumns) \union All(IndexedTables) : y[1] # "users"
    BY DEF All, ReportColumns, ReportIndexes, LlmColumns, TokenColumns, IndexedTables, Things
  <2>10. On(2)[1] = "table" /\ On(3)[1] = "table" /\ On(4)[1] = "table"
         /\ On(2)[2] = "access_logs" /\ On(3)[2] = "reports" /\ On(4)[2] = "user_llm_configs"
    BY <1>1, Names
  <2>11. \A y \in Born(On(line[p])) : y[1] # "users"
    <3>1. CASE line[p] = 2
      BY <2>9, <2>10, <3>1 DEF Born
    <3>2. CASE line[p] = 3
      BY <2>9, <2>10, <3>2 DEF Born
    <3>3. CASE line[p] = 4
      BY <2>9, <2>10, <3>3 DEF Born
    <3> QED
      BY <2>7, <3>1, <3>2, <3>3
  <2> QED
    BY <2>6, <2>8, <2>11
<1> QED
  BY <1>2, <1>3, <1>4, <1>5

\* A process that gives up leaves one behind it, or none can start.
LEMMA FallsDown ==
    ASSUME SchemaInv, died = 0, NEW p \in Starters, Falls(p), line'[p] = 0
    PROVE  /\ Hopeless \/ Beyond(line[p])
           /\ line[p] > HealthyAt + 2 => Beyond(line[p])
<1>1. engine \in Engines /\ HealthyAt \in Nat /\ HashAt \in Nat /\ IndexAt \in Nat /\ HealthyAt > HashAt + 2
  BY Numbers DEF SchemaInv, StartTyped, StartTypeOK
<1>2. /\ \A k \in 2 .. 5 : line[p] \in 2 .. k /\ On(k) \in there \ seen[p] => Hopeless \/ Beyond(k)
      /\ line[p] = HealthyAt + 2 /\ Admin \in there \ seen[p] => Beyond(HealthyAt + 2)
      /\ line[p] = HealthyAt + 4 /\ Plans \in there \ seen[p] => Beyond(HealthyAt + 4)
  BY DEF SchemaInv, OneGoesOn
<1>3. \/ Beaten(p) /\ line[p] \in 2 .. 5
      \/ Unreadable(p) /\ line[p] = HealthyAt + 1
      \/ AdminTaken(p) /\ line[p] = HealthyAt + 2
      \/ Beaten(p) /\ line[p] = HealthyAt + 4
  BY <1>1, FallsBy
<1>4. CASE Beaten(p) /\ line[p] \in 2 .. 5
  <2>1. line[p] \in 2 .. line[p] /\ ~(line[p] > HealthyAt + 2)
    BY <1>1, <1>4
  <2>2. Hopeless \/ Beyond(line[p])
    BY <1>2, <1>4, <2>1 DEF Beaten
  <2> QED
    BY <2>1, <2>2
<1>5. CASE Unreadable(p) /\ line[p] = HealthyAt + 1
  BY <1>1, <1>5 DEF Unreadable, Hopeless
<1>6. CASE AdminTaken(p) /\ line[p] = HealthyAt + 2
  BY <1>1, <1>2, <1>6 DEF AdminTaken, Hopeless
<1>7. CASE Beaten(p) /\ line[p] = HealthyAt + 4
  <2>1. On(HealthyAt + 4) = Plans
    BY <1>1, Names DEF Plans
  <2> QED
    BY <1>2, <1>7, <2>1 DEF Beaten
<1> QED
  BY <1>3, <1>4, <1>5, <1>6, <1>7

\* Where one was beyond a place, one is.
LEMMA BeyondStays ==
    ASSUME SchemaInv, NEW p \in Starters, Step(p), died' = 0, NEW k \in Nat, Beyond(k)
    PROVE  Beyond(k)' \/ (k < HealthyAt + 2 /\ Hopeless')
<1>1. died = 0 /\ ~Drops(p) /\ HealthyAt \in Nat
  BY Grows, Numbers DEF SchemaInv, Drops
<1>2. \A r \in Starters : line[r] \in Nat /\ (r # p => line'[r] = line[r])
  BY <1>1, WhereItIs DEF SchemaInv, Step, Alone
<1>3. PICK r \in Starters : line[r] > k
  BY DEF Beyond
<1>4. CASE r # p
  BY <1>2, <1>3, <1>4 DEF Beyond
<1>5. CASE r = p /\ Advances(p)
  <2>1. line'[p] > k
    BY <1>1, <1>2, <1>3, <1>5 DEF Advances, MovesUp
  <2> QED
    BY <2>1 DEF Beyond
<1>6. CASE r = p /\ Falls(p) /\ line'[p] # 0
  <2>1. line[p] \in 7 .. HealthyAt /\ line'[p] \in line[p] + 1 .. HealthyAt + 1
    BY <1>6, FallsTo
  <2>2. line'[p] > k
    BY <1>1, <1>2, <1>3, <1>6, <2>1
  <2> QED
    BY <2>2 DEF Beyond
<1>7. CASE r = p /\ Falls(p) /\ line'[p] = 0
  <2>1. CASE Beyond(line[p])
    <3>1. PICK b \in Starters : line[b] > line[p]
      BY <2>1 DEF Beyond
    <3>2. b # p
      BY <1>2, <3>1
    <3>3. line'[b] > k
      BY <1>2, <1>3, <1>7, <3>1, <3>2
    <3> QED
      BY <3>3 DEF Beyond
  <2>2. CASE Hopeless /\ ~(line[p] > HealthyAt + 2)
    <3>1. Hopeless'
      BY <1>7, <2>2 DEF Falls, dataVars, Hopeless, UsersReadable
    <3>2. k < HealthyAt + 2
      BY <1>1, <1>2, <1>3, <1>7, <2>2
    <3> QED
      BY <3>1, <3>2
  <2> QED
    BY <1>1, <1>7, <2>1, <2>2, FallsDown
<1>8. ~(r = p /\ Begins(p))
  BY <1>2, <1>3 DEF Begins
<1> QED
  BY <1>1, <1>4, <1>5, <1>6, <1>7, <1>8 DEF Step

\* Of those that are beaten to a table, one is beyond it.
LEMMA TablesGoOn ==
    ASSUME SchemaInv, NEW p \in Starters, Step(p), died' = 0, NEW q \in Starters, NEW k \in 2 .. 5,
           line'[q] \in 2 .. k, On(k) \in there' \ seen'[q]
    PROVE  Hopeless' \/ Beyond(k)'
<1>1. died = 0 /\ ~Drops(p) /\ HealthyAt \in Nat /\ HealthyAt > 10 /\ engine \in Engines /\ there \subseteq there'
  BY Grows, Numbers DEF SchemaInv, Drops, StartTyped, StartTypeOK
<1>2. ASSUME NEW r \in Starters, line[r] \in 2 .. k, On(k) \in there \ seen[r] PROVE Hopeless' \/ Beyond(k)'
  <2>1. Hopeless \/ Beyond(k)
    BY <1>1, <1>2 DEF SchemaInv, OneGoesOn
  <2>2. CASE Hopeless
    <3>1. ~Hopeless' => line'[p] > 5
      BY <2>2, HopeLost
    <3>2. ~Hopeless' => line'[p] > k
      <4>1. Advances(p) => line'[p] \in Nat
        BY <1>1 DEF Advances, MovesUp
      <4>2. ~Hopeless' => Advances(p)
        BY <2>2, HopeLost
      <4> QED
        BY <3>1, <4>1, <4>2
    <3> QED
      BY <3>2 DEF Beyond
  <2>3. CASE Beyond(k)
    BY <2>3, BeyondStays
  <2> QED
    BY <2>1, <2>2, <2>3
<1>3. k \in AddsAt /\ \A j \in 2 .. 5 : j \in AddsAt
  BY DEF AddsAt
<1>4. ASSUME Advances(p), line[p] \in 2 .. 5, On(k) \in there' \ there PROVE line[p] = k
  <2>1. DidAdd(p)
    BY <1>3, <1>4, DidByPlace
  <2>2. On(k) \in Born(On(line[p]))
    BY <1>4, <2>1 DEF DidAdd
  <2> QED
    BY <1>1, <1>4, <2>2, Births
<1>5. ASSUME Advances(p)
      PROVE  line[p] \in Nat /\ line'[p] \in Nat /\ line'[p] > line[p] /\ line[p] > 0 /\ line[p] < HealthyAt + 5
  BY <1>1, <1>5 DEF Advances, MovesUp
<1>6. CASE q # p
  <2>1. line[q] \in 2 .. k /\ seen'[q] = seen[q]
    BY <1>6 DEF Step, Alone
  <2>2. CASE On(k) \in there
    BY <1>2, <2>1, <2>2
  <2>3. CASE On(k) \notin there
    <3>1. Advances(p)
      BY <2>3, Grows DEF SchemaInv
    <3>2. line[p] # 1
      <4>1. line[p] = 1 => DidLook(p)
        BY <3>1, DidByPlace DEF LooksAt
      <4> QED
        BY <2>3, <4>1 DEF DidLook
    <3>3. line'[p] > k
      <4>1. CASE line[p] \in 2 .. 5
        BY <1>4, <1>5, <2>3, <3>1, <4>1
      <4>2. CASE line[p] > 5
        BY <1>5, <3>1, <4>2
      <4> QED
        BY <1>5, <3>1, <3>2, <4>1, <4>2
    <3> QED
      BY <3>3 DEF Beyond
  <2> QED
    BY <2>2, <2>3
<1>7. CASE q = p
  <2>1. Advances(p)
    <3>1. line'[p] \in AddsAt /\ line'[p] # 1
      BY <1>3, <1>7
    <3> QED
      BY <1>1, <3>1, FallsTo DEF Step, Begins
  <2>2. line[p] \in 1 .. 4 /\ line[p] < k
    BY <1>5, <1>7, <2>1
  <2>3. seen'[p] = Finds(p)
    <3>1. PartOf(line[p] + 1) = PartOf(line[p]) /\ line[p] < HealthyAt + 4
      BY <1>1, <2>2 DEF PartOf
    <3> QED
      BY <2>1, <3>1 DEF Advances, MovesUp
  <2>4. CASE line[p] = 1
    <3>1. 1 \in LooksAt
      BY DEF LooksAt
    <3>2. there' = there
      BY <2>1, <2>4, <3>1, DidByPlace DEF DidLook
    <3>3. On(1)[1] = On(k)[1]
      <4>1. On(1) = Tables[1]
        BY <1>1, WhatAbout
      <4>2. Tables[1][1] = "table"
        BY DEF Tables, Things
      <4>3. k = 2 \/ k = 3 \/ k = 4 \/ k = 5
        OBVIOUS
      <4>4. On(k)[1] = "table"
        BY <1>1, <4>3, Names
      <4> QED
        BY <4>1, <4>2, <4>4
    <3>4. On(k) \in Finds(p)
      BY <1>7, <2>4, <3>1, <3>2, <3>3 DEF Finds
    <3> QED
      BY <1>7, <2>3, <3>4
  <2>5. CASE line[p] \in 2 .. 4
    <3>1. line[p] \notin LooksAt
      BY <2>5, Numbers DEF LooksAt
    <3>2. seen'[p] = seen[p]
      BY <2>3, <3>1 DEF Finds
    <3>3. On(k) \in there
      <4>1. line[p] \in 2 .. 5 /\ line[p] # k
        BY <2>2, <2>5
      <4> QED
        BY <1>4, <1>7, <2>1, <4>1
    <3>4. line[p] \in 2 .. k
      BY <2>2, <2>5
    <3> QED
      BY <1>2, <1>7, <3>2, <3>3, <3>4
  <2> QED
    BY <2>2, <2>4, <2>5
<1> QED
  BY <1>6, <1>7

\* So it is with the administrator.
LEMMA AdminGoesOn ==
    ASSUME SchemaInv, NEW p \in Starters, Step(p), died' = 0, NEW q \in Starters,
           line'[q] = HealthyAt + 2, Admin \in there' \ seen'[q]
    PROVE  Beyond(HealthyAt + 2)'
<1>1. /\ died = 0 /\ ~Drops(p) /\ HealthyAt \in Nat /\ HealthyAt > 10 /\ engine \in Engines
      /\ HealthyAt' = HealthyAt
  BY Grows, SamePlaces, Numbers DEF SchemaInv, Drops, StartTyped, StartTypeOK
<1>2. CASE q # p
  <2>1. line[q] = HealthyAt + 2 /\ seen'[q] = seen[q] /\ line[q] > 6
    BY <1>1, <1>2 DEF Step, Alone
  <2>2. CASE Admin \in there
    <3>1. Beyond(HealthyAt + 2)
      BY <1>1, <2>1, <2>2 DEF SchemaInv, OneGoesOn
    <3>2. PICK k \in Nat : k = HealthyAt + 2
      BY <1>1
    <3>3. Beyond(k)
      BY <3>1, <3>2
    <3>4. Beyond(k)'
      BY <1>1, <3>2, <3>3, BeyondStays
    <3> QED
      BY <1>1, <3>2, <3>4 DEF Beyond
  <2>3. CASE Admin \notin there
    <3>1. Admin \in there' \ there
      BY <2>3
    <3>2. ~(line[p] \in AddsAt /\ Admin \in Born(On(line[p])))  \/ line[p] <= 6
      <4> SUFFICES ASSUME line[p] \in AddsAt, Admin \in Born(On(line[p])), ~(line[p] <= 6) PROVE FALSE
        OBVIOUS
      <4>0. line[p] \in Nat
        BY <1>1, WhereItIs DEF SchemaInv
      <4>1. On(IndexAt + 2)[1] = "market" /\ FactorColumns[1][1] = "marketdata_stk_factor_pro" /\ Admin = <<"row", "admin">>
        BY <1>1, Names DEF Admin
      <4>2. line[p] # IndexAt + 2
        BY <1>1, <4>1, Births
      <4>3. Admin = On(line[p])
        BY <1>1, <4>0, <4>2, Births
      <4>4. line[p] \in {HashAt + 3, HealthyAt + 4}
        <5>1. On(line[p])[1] = "row"
          BY <4>1, <4>3
        <5> QED
          BY <1>1, <5>1, Births
      <4> QED
        BY <1>1, <4>1, <4>3, <4>4, Names
    <3>3. \A j \in IndexesAt : On(j)[1] = "index"
      <4>1. CASE Sqlite
        BY <1>1, <4>1, Names, Numbers DEF IndexesAt
      <4>2. CASE ~Sqlite
        BY <1>1, <4>2, Names, Numbers DEF IndexesAt
      <4> QED
        BY <4>1, <4>2
    <3>4. /\ Admin[1] = "row" /\ On(8)[1] = "reports" /\ On(9)[1] = "reports" /\ On(10)[1] = "index"
          /\ \A y \in Born(On(IndexAt + 2)) : y[1] \in {"market", "marketdata_stk_factor_pro"}
      <4>1. On(IndexAt + 2)[1] = "market" /\ FactorColumns[1][1] = "marketdata_stk_factor_pro"
        BY <1>1, Names
      <4>2. Admin[1] = "row" /\ On(8)[1] = "reports" /\ On(9)[1] = "reports" /\ On(10)[1] = "index"
        BY <1>1, Names DEF Admin
      <4> QED
        BY <1>1, <4>1, <4>2, Births
    <3>5. Advances(p) /\ line'[p] > line[p] /\ line[p] > 6
      BY <2>1, <3>1, NewThings
    <3>6. DidAdmin(p)
      <4>1. ~(DidIndex(p) /\ Admin = On(line[p]))
        BY <3>3, <3>4 DEF DidIndex
      <4>2. ~(DidAdd(p) /\ Admin \in Born(On(line[p])))
        <5>1. line[p] \in Nat
          BY <1>1, WhereItIs DEF SchemaInv
        <5> QED
          BY <3>2, <3>5, <5>1 DEF DidAdd
      <4>3. Admin \notin {On(8), On(9), On(10)} /\ Admin \notin Born(On(IndexAt + 2))
        BY <3>4
      <4> QED
        BY <2>1, <3>1, <4>1, <4>2, <4>3, NewThings
    <3>7. line[p] = HealthyAt + 2
      BY <3>6 DEF DidAdmin
    <3> QED
      BY <1>1, <3>5, <3>7 DEF Beyond
  <2> QED
    BY <2>2, <2>3
<1>3. CASE q = p
  <2>1. Advances(p)
    <3>1. ~Falls(p)
      <4>1. Falls(p) => line'[p] \in 0 .. HealthyAt + 1
        BY <1>1, FallsTo
      <4> QED
        BY <1>1, <1>3, <4>1
    <3> QED
      BY <1>1, <1>3, <3>1 DEF Step, Begins
  <2>2. line[p] = HealthyAt + 1
    <3>1. line[p] \in Nat /\ line[p] < HealthyAt + 2
      BY <1>1, <1>3, <2>1 DEF Advances, MovesUp
    <3>2. HealthyAt + 1 \notin AddsAt /\ HealthyAt + 1 \notin CommitsAt
      <4>1. CASE Sqlite
        BY <4>1, Numbers DEF AddsAt, CommitsAt
      <4>2. CASE ~Sqlite
        BY <4>2, Numbers DEF AddsAt, CommitsAt
      <4> QED
        BY <4>1, <4>2
    <3>3. ~(HealthyAt + 1 > line[p])
      <4> SUFFICES ASSUME HealthyAt + 1 > line[p] PROVE FALSE
        OBVIOUS
      <4>1. line'[p] <= HealthyAt + 1
        <5>1. HealthyAt + 1 \in Nat
          BY <1>1
        <5> QED
          BY <2>1, <3>2, <5>1, Stops
      <4> QED
        BY <1>1, <1>3, <4>1
    <3> QED
      BY <1>1, <3>1, <3>3
  <2>3. line[p] \in LooksAt /\ On(line[p]) = Admin
    BY <1>1, <2>2, WhatAbout DEF LooksAt
  <2>4. PartOf(line[p] + 1) = PartOf(line[p]) /\ line[p] < HealthyAt + 4
    <3>1. CASE Sqlite
      BY <2>2, <3>1, Numbers DEF PartOf
    <3>2. CASE ~Sqlite
      BY <2>2, <3>2, Numbers DEF PartOf
    <3> QED
      BY <3>1, <3>2
  <2>5. there' = there /\ seen'[p] = Finds(p)
    BY <2>1, <2>3, <2>4, DidByPlace DEF DidLook, Advances, MovesUp
  <2>6. Admin \in Finds(p)
    BY <1>3, <2>3, <2>5 DEF Finds
  <2> QED
    BY <1>3, <2>5, <2>6
<1> QED
  BY <1>2, <1>3

\* And with the plans.
LEMMA PlansGoOn ==
    ASSUME SchemaInv, NEW p \in Starters, Step(p), died' = 0, NEW q \in Starters,
           line'[q] = HealthyAt + 4, Plans \in there' \ seen'[q]
    PROVE  Beyond(HealthyAt + 4)'
<1>1. /\ died = 0 /\ ~Drops(p) /\ HealthyAt \in Nat /\ HealthyAt > 10 /\ engine \in Engines
      /\ HealthyAt' = HealthyAt
  BY Grows, SamePlaces, Numbers DEF SchemaInv, Drops, StartTyped, StartTypeOK
<1>2. On(HealthyAt + 4) = Plans
  BY <1>1, Names DEF Plans
<1>3. CASE q # p
  <2>1. line[q] = HealthyAt + 4 /\ seen'[q] = seen[q] /\ line[q] > 6
    BY <1>1, <1>3 DEF Step, Alone
  <2>2. CASE Plans \in there
    <3>1. Beyond(HealthyAt + 4)
      BY <1>1, <2>1, <2>2 DEF SchemaInv, OneGoesOn
    <3>2. PICK k \in Nat : k = HealthyAt + 4
      BY <1>1
    <3>3. Beyond(k)
      BY <3>1, <3>2
    <3>4. Beyond(k)'
      BY <1>1, <3>2, <3>3, BeyondStays
    <3> QED
      BY <1>1, <3>2, <3>4 DEF Beyond
  <2>3. CASE Plans \notin there
    <3>1. PICK k \in Nat : k = HealthyAt + 4
      BY <1>1
    <3>2. k \in AddsAt /\ k > 6 /\ k > 9 /\ k # IndexAt + 2
      <4>1. k \in AddsAt
        BY <3>1 DEF AddsAt
      <4>2. IndexAt + 2 < HealthyAt
        BY Numbers
      <4> QED
        BY <1>1, <3>1, <4>1, <4>2, Numbers
    <3>3. On(k) # FactorColumns[1] /\ On(k) = Plans
      <4>1. FactorColumns[1][1] # "row"
        BY <1>1, Names
      <4> QED
        BY <1>2, <3>1, <4>1 DEF Plans
    <3>4. Advances(p) /\ line[p] = k
      BY <2>1, <2>3, <3>2, <3>3, NewAtPlace
    <3>5. line'[p] > HealthyAt + 4
      BY <1>1, <3>1, <3>4 DEF Advances, MovesUp
    <3> QED
      BY <1>1, <3>5 DEF Beyond
  <2> QED
    BY <2>2, <2>3
<1>4. CASE q = p
  <2>1. Advances(p)
    <3>1. ~Falls(p)
      <4>1. Falls(p) => line'[p] \in 0 .. HealthyAt + 1
        BY <1>1, FallsTo
      <4> QED
        BY <1>1, <1>4, <4>1
    <3> QED
      BY <1>1, <1>4, <3>1 DEF Step, Begins
  <2>2. line[p] = HealthyAt + 3
    <3>1. line[p] \in Nat /\ line[p] < HealthyAt + 4
      BY <1>1, <1>4, <2>1 DEF Advances, MovesUp
    <3>2. HealthyAt + 3 \notin AddsAt /\ HealthyAt + 3 \notin CommitsAt
      <4>1. CASE Sqlite
        BY <4>1, Numbers DEF AddsAt, CommitsAt
      <4>2. CASE ~Sqlite
        BY <4>2, Numbers DEF AddsAt, CommitsAt
      <4> QED
        BY <4>1, <4>2
    <3>3. ~(HealthyAt + 3 > line[p])
      <4> SUFFICES ASSUME HealthyAt + 3 > line[p] PROVE FALSE
        OBVIOUS
      <4>1. line'[p] <= HealthyAt + 3
        <5>1. HealthyAt + 3 \in Nat
          BY <1>1
        <5> QED
          BY <2>1, <3>2, <5>1, Stops
      <4> QED
        BY <1>1, <1>4, <4>1
    <3> QED
      BY <1>1, <3>1, <3>3
  <2>3. line[p] \in LooksAt /\ On(line[p]) = Plans
    BY <1>1, <2>2, WhatAbout DEF LooksAt
  <2>4. PartOf(line[p] + 1) = PartOf(line[p]) /\ line[p] < HealthyAt + 4
    <3>1. CASE Sqlite
      BY <2>2, <3>1, Numbers DEF PartOf
    <3>2. CASE ~Sqlite
      BY <2>2, <3>2, Numbers DEF PartOf
    <3> QED
      BY <3>1, <3>2
  <2>5. there' = there /\ seen'[p] = Finds(p)
    BY <2>1, <2>3, <2>4, DidByPlace DEF DidLook, Advances, MovesUp
  <2>6. Plans \in Finds(p)
    BY <1>4, <2>3, <2>5 DEF Finds
  <2> QED
    BY <1>4, <2>5, <2>6
<1> QED
  BY <1>3, <1>4

\* Not all fail.
LEMMA OneGoesOnKept == ASSUME SchemaInv, NEW p \in Starters, Step(p) PROVE OneGoesOn'
<1>1. /\ HealthyAt' = HealthyAt /\ \A k : On(k)' = On(k)
      /\ HealthyAt \in Nat
  BY Grows, SamePlaces, Numbers DEF SchemaInv
<1>2. SUFFICES ASSUME died' = 0
               PROVE  /\ \A q \in Starters :
                           /\ \A k \in 2 .. 5 : line'[q] \in 2 .. k /\ On(k) \in there' \ seen'[q] => Hopeless' \/ Beyond(k)'
                           /\ line'[q] = HealthyAt + 2 /\ Admin \in there' \ seen'[q] => Beyond(HealthyAt + 2)'
                           /\ line'[q] = HealthyAt + 4 /\ Plans \in there' \ seen'[q] => Beyond(HealthyAt + 4)'
                      /\ Hopeless' \/ Beyond(0)'
  BY <1>1 DEF OneGoesOn
<1>3. Hopeless' \/ Beyond(0)'
  <2>0. died = 0 /\ ~Drops(p)
    BY <1>2, Grows DEF SchemaInv, Drops
  <2>1. \A r \in Starters : line[r] \in Nat /\ (r # p => line'[r] = line[r])
    BY <1>1, WhereItIs DEF SchemaInv, Step, Alone
  <2>2. CASE Begins(p)
    <3>1. line'[p] > 0
      BY <2>2 DEF Begins
    <3> QED
      BY <3>1 DEF Beyond
  <2>3. CASE Advances(p)
    <3>1. line'[p] > 0
      BY <1>1, <2>3 DEF Advances, MovesUp
    <3> QED
      BY <3>1 DEF Beyond
  <2>4. CASE Falls(p) /\ line'[p] # 0
    <3>1. line'[p] \in line[p] + 1 .. HealthyAt + 1
      BY <2>4, FallsTo
    <3>2. line'[p] > 0
      BY <1>1, <2>1, <3>1
    <3> QED
      BY <3>2 DEF Beyond
  <2>5. CASE Falls(p) /\ line'[p] = 0
    <3>1. CASE Hopeless
      BY <2>5, <3>1 DEF Falls, dataVars, Hopeless, UsersReadable
    <3>2. CASE Beyond(line[p])
      <4>1. PICK b \in Starters : line[b] > line[p]
        BY <3>2 DEF Beyond
      <4>2. b # p
        BY <2>1, <4>1
      <4>3. line'[b] > 0
        BY <2>1, <4>1, <4>2
      <4> QED
        BY <4>3 DEF Beyond
    <3> QED
      BY <2>0, <2>5, <3>1, <3>2, FallsDown
  <2> QED
    BY <2>0, <2>2, <2>3, <2>4, <2>5 DEF Step
<1> QED
  BY <1>2, <1>3, TablesGoOn, AdminGoesOn, PlansGoOn

-----------------------------------------------------------------------------
(* The invariant, and what it says once all have come to rest.             *)

\* A database as a release has left it, with nothing running.
LEMMA SchemaInit == StartInit => SchemaInv
<1> SUFFICES ASSUME StartInit PROVE SchemaInv
  OBVIOUS
<1>1. /\ died = 0
      /\ \A p \in Starters : /\ line[p] = 0 /\ seen[p] = {} /\ held[p] = {} /\ aborted[p] = FALSE
                             /\ healthy[p] = FALSE /\ skipped[p] = FALSE
  BY DEF StartInit
<1>2. HealthyAt \in Nat /\ IndexAt \in Nat /\ HashAt \in Nat
  BY Numbers
<1>3. StartTyped
  BY StartInitTyped
<1>4. astray => Admin \in there
  <2> SUFFICES ASSUME astray PROVE Admin \in there
    OBVIOUS
  <2>1. there = Release(3)
    BY DEF StartInit
  <2>2. Admin \in Everything
    BY DEF Everything
  <2> QED
    BY <2>1, <2>2 DEF Release
<1>5. SeenThere /\ NewHeld /\ HeldByOne
  BY <1>1, Numbers DEF SeenThere, NewHeld, HeldByOne
<1>6. NotIdle
  <2>1. 0 \notin AddsAt /\ 0 \notin CommitsAt
    BY <1>2 DEF AddsAt, CommitsAt
  <2> QED
    BY <1>1, <2>1 DEF NotIdle
<1>7. TablesBrought /\ IndexesBrought /\ ReportsBrought
  BY <1>1, <1>2 DEF TablesBrought, IndexesBrought, ReportsBrought
<1>8. MarketBrought /\ AdminBrought
  BY <1>1, <1>2, <1>4 DEF MarketBrought, AdminBrought
<1>9. NothingLost
  <2>1. \A i \in Targets : i >= 0
    BY <1>2 DEF Targets
  <2> QED
    BY <1>1, <2>1, <1>3, <1>2, TargetPlaces DEF NothingLost, StartTyped, StartTypeOK
<1>10. BeatenByOne
  <2>1. ASSUME NEW p \in Starters, NEW s \in 1 .. HealthyAt, NEW k \in 1 .. HealthyAt PROVE line[p] \notin s + 1 .. k
    BY <1>1, <1>2
  <2> QED
    BY <2>1 DEF BeatenByOne
<1>11. OneGoesOn
  BY <1>1, <1>2 DEF OneGoesOn
<1> QED
  BY <1>3, <1>5, <1>6, <1>7, <1>8, <1>9, <1>10, <1>11 DEF SchemaInv

\* Where nothing changes, nothing is lost.
LEMMA SchemaStutters == SchemaInv /\ UNCHANGED startVars => SchemaInv'
<1> SUFFICES ASSUME SchemaInv, UNCHANGED startVars PROVE SchemaInv'
  OBVIOUS
<1>1. /\ UNCHANGED <<engine, there, orphans, token, secret, astray, holder, line, seen, held, aborted>>
      /\ UNCHANGED <<healthy, skipped, died>>
  BY DEF startVars
<1>2. /\ HashAt' = HashAt /\ IndexAt' = IndexAt /\ HealthyAt' = HealthyAt
      /\ (Sqlite <=> Sqlite') /\ (Postgres <=> Postgres')
      /\ AddsAt' = AddsAt /\ CommitsAt' = CommitsAt /\ Targets' = Targets
      /\ \A k : On(k)' = On(k)
      /\ \A s, k, i : Pair(s, k, i)' <=> Pair(s, k, i)
  BY <1>1, SamePlaces
<1>3. StartTyped'
  BY StartStepTyped DEF SchemaInv
<1>4. SeenThere' /\ NotIdle' /\ NewHeld' /\ HeldByOne'
  BY <1>1, <1>2 DEF SchemaInv, SeenThere, NotIdle, NewHeld, HeldByOne
<1>5. TablesBrought' /\ IndexesBrought' /\ ReportsBrought'
  BY <1>1, <1>2 DEF SchemaInv, TablesBrought, IndexesBrought, ReportsBrought
<1>6. MarketBrought' /\ AdminBrought'
  BY <1>1, <1>2 DEF SchemaInv, MarketBrought, AdminBrought
<1>7. /\ \A i : DoneAt(i)' <=> DoneAt(i)
      /\ \A a, b : Between(a, b)' <=> Between(a, b)
  BY <1>1, <1>2 DEF DoneAt, Between
<1>8. \A i : Excused(i)' <=> Excused(i)
  BY <1>1, <1>2 DEF Excused, UsersReadable
<1>9. \A q \in Starters : \A i : Owed(q, i)' <=> Owed(q, i)
  BY <1>1, <1>7 DEF Owed
<1>10. NothingLost'
  BY <1>1, <1>2, <1>7, <1>8, <1>9 DEF SchemaInv, NothingLost
<1>11. BeatenByOne'
  BY <1>1, <1>2, <1>7 DEF SchemaInv, BeatenByOne
<1>12. (Hopeless' <=> Hopeless) /\ \A k : Beyond(k)' <=> Beyond(k)
  BY <1>1 DEF Hopeless, Beyond, UsersReadable
<1>13. OneGoesOn'
  BY <1>1, <1>2, <1>12 DEF SchemaInv, OneGoesOn
<1> QED
  BY <1>3, <1>4, <1>5, <1>6, <1>10, <1>11, <1>13 DEF SchemaInv

\* Every statement of every process keeps it.
LEMMA SchemaStep == SchemaInv /\ [StartNext]_startVars => SchemaInv'
<1> SUFFICES ASSUME SchemaInv, [StartNext]_startVars PROVE SchemaInv'
  OBVIOUS
<1>1. StartTyped' /\ StartTyped /\ NotIdle
  BY StartStepTyped DEF SchemaInv
<1>2. CASE UNCHANGED startVars
  BY <1>2, SchemaStutters
<1>3. CASE StartNext
  <2>1. PICK p \in Starters : Starts(p) \/ StartStep(p) \/ Dies(p)
    BY <1>3 DEF StartNext
  <2>2. Step(p)
    BY <1>1, <2>1, StepByPlace
  <2>3. SeenThere' /\ NotIdle' /\ NewHeld' /\ HeldByOne'
    BY <2>2, SeenThereKept, NotIdleKept, NewHeldKept, HeldByOneKept
  <2>4. TablesBrought' /\ IndexesBrought' /\ ReportsBrought' /\ MarketBrought' /\ AdminBrought'
    BY <2>2, TablesBroughtKept, IndexesBroughtKept, ReportsBroughtKept, MarketBroughtKept, AdminBroughtKept
  <2>5. NothingLost' /\ BeatenByOne' /\ OneGoesOn'
    BY <2>2, NothingLostKept, BeatenByOneKept, OneGoesOnKept
  <2> QED
    BY <1>1, <2>3, <2>4, <2>5 DEF SchemaInv
<1> QED
  BY <1>2, <1>3

\* What this release works with is what the places add, and what comes with it.
LEMMA EverythingPlaced ==
    ASSUME engine \in Engines, NEW x \in Everything
    PROVE  \/ x \in {Legacy, Admin, Plans}
           \/ x \in All(Tables) \/ x \in {On(8), On(9), On(10)} \/ x \in {On(IndexAt + 2), FactorColumns[1]}
           \/ x \in {IndexedTables[1], On(IndexAt)}
           \/ x \in UserColumns \/ x = LlmColumns[1] \/ x = TokenColumns[1]
<1>1. /\ All(ReportColumns) = {On(8), On(9)} /\ All(ReportIndexes) = {On(10)}
      /\ All(LlmColumns) = {LlmColumns[1]} /\ All(TokenColumns) = {TokenColumns[1]}
      /\ All(IndexedTables) = {IndexedTables[1], On(IndexAt)} /\ All(FactorColumns) = {FactorColumns[1]}
      /\ All(MarketTables) = {On(IndexAt + 2)}
  <2>1. /\ All(ReportColumns) = {ReportColumns[1], ReportColumns[2]} /\ All(ReportIndexes) = {ReportIndexes[1]}
        /\ All(LlmColumns) = {LlmColumns[1]} /\ All(TokenColumns) = {TokenColumns[1]}
    BY DEF All, ReportColumns, ReportIndexes, LlmColumns, TokenColumns, Things
  <2>2. /\ All(IndexedTables) = {IndexedTables[1], IndexedTables[2]} /\ All(FactorColumns) = {FactorColumns[1]}
        /\ All(MarketTables) = {MarketTables[1]}
    BY DEF All, IndexedTables, FactorColumns, MarketTables, Things
  <2>3. On(8) = ReportColumns[1] /\ On(9) = ReportColumns[2] /\ On(10) = ReportIndexes[1]
    BY WhatAbout
  <2>4. On(IndexAt) = IndexedTables[2]
    BY WhatAbout
  <2>5. On(IndexAt + 2) = MarketTables[1]
    BY WhatAbout
  <2> QED
    BY <2>1, <2>2, <2>3, <2>4, <2>5
<1>2. x \in {Legacy, Admin, Plans} \/ \E t \in All(Tables) \union All(MarketTables) : x \in Born(t)
  BY DEF Everything
<1>3. ASSUME NEW t, x \in Born(t)
      PROVE  \/ x = t \/ x \in All(ReportColumns) \/ x \in All(ReportIndexes) \/ x \in UserColumns
             \/ x \in All(LlmColumns) \/ x \in All(TokenColumns) \/ x \in All(IndexedTables) \/ x \in All(FactorColumns)
  BY <1>3 DEF Born
<1> QED
  BY <1>1, <1>2, <1>3

\* At rest, nothing is left to anybody.
LEMMA NothingLeft ==
    ASSUME SchemaInv, NEW p \in Starters, Serves(p), \A q \in Starters : Down(q) \/ Serves(q),
           died > 0 => ~skipped[p], NEW i \in Targets
    PROVE  DoneAt(i) \/ Excused(i)
<1>1. engine \in Engines /\ HashAt \in Nat /\ HealthyAt \in Nat
  BY Numbers DEF SchemaInv, StartTyped, StartTypeOK
<1>2. i \in 8 .. HashAt + 4 /\ HashAt + 4 < HealthyAt
  BY <1>1, TargetPlaces
<1>3. \A q \in Starters : line[q] \in Nat /\ (line[q] = 0 \/ line[q] > HealthyAt)
  BY <1>1, WhereItIs DEF SchemaInv
<1>4. line[p] > i
  <2>1. line[p] > HealthyAt
    BY WhereItIs DEF SchemaInv
  <2> QED
    BY <1>1, <1>2, <1>3, <2>1
<1>5. ~Between(6, i)
  <2> SUFFICES ASSUME NEW q \in Starters, 6 < line[q], line[q] <= i PROVE FALSE
    BY DEF Between
  <2> QED
    BY <1>1, <1>2, <1>3
<1> QED
  BY <1>4, <1>5 DEF SchemaInv, NothingLost, Owed

\* The invariant gives what a start is for.
LEMMA SchemaFollows == SchemaInv => SchemaWhole
<1> SUFFICES ASSUME SchemaInv PROVE SchemaWhole
  OBVIOUS
<1> DEFINE up == {p \in Starters : Serves(p)}
           allRest == \A p \in Starters : Down(p) \/ Serves(p)
           old == NotBrought \union {Legacy, Admin, Plans}
<1>0. engine \in Engines
  BY DEF SchemaInv, StartTyped, StartTypeOK
<1>1. /\ engine \in Engines /\ HashAt \in {12, 19} /\ HealthyAt \in Nat /\ HealthyAt > HashAt + 4 /\ died \in Nat
      /\ IndexAt \in Nat /\ HealthyAt > 23 /\ HealthyAt > IndexAt + 3
  BY Numbers, StartupAssumption DEF SchemaInv, StartTyped, StartTypeOK
<1>2. \A p \in Starters : line[p] \in Nat
  BY <1>1, WhereItIs DEF SchemaInv
<1>3. All(MarketTables) = {On(IndexAt + 2)} /\ All(TokenColumns) = {TokenColumns[1]} /\ All(LlmColumns) = {LlmColumns[1]}
      /\ All(ReportIndexes) = {On(10)}
  <2>1. All(MarketTables) = {MarketTables[1]} /\ All(TokenColumns) = {TokenColumns[1]} /\ All(LlmColumns) = {LlmColumns[1]}
        /\ All(ReportIndexes) = {ReportIndexes[1]}
    BY DEF All, MarketTables, TokenColumns, LlmColumns, ReportIndexes, Things
  <2>2. On(IndexAt + 2) = MarketTables[1]
    BY <1>0, WhatAbout
  <2>3. On(10) = ReportIndexes[1]
    BY <1>0, WhatAbout
  <2> QED
    BY <2>1, <2>2, <2>3
<1>4. ASSUME up # {}, allRest, died = 0 \/ \E p \in up : ~skipped[p]
      PROVE  /\ Everything \ old \subseteq there
             /\ UsersReadable => Legacy \in there /\ ~orphans
             /\ All(TokenColumns) \subseteq there => token = "hashed"
             /\ All(LlmColumns) \subseteq there => secret = "custom"
             /\ up \intersect Apis # {} => {Admin, Plans} \subseteq there /\ ~astray
  <2>1. PICK p \in Starters : Serves(p) /\ (died > 0 => ~skipped[p])
    BY <1>1, <1>4
  <2>2. \A i \in Targets : DoneAt(i) \/ Excused(i)
    BY <1>4, <2>1, NothingLeft
  <2>3. line[p] > HealthyAt
    BY <2>1, WhereItIs DEF SchemaInv
  <2>4. HashAt \in Targets /\ HashAt + 1 \in Targets /\ HashAt + 3 \in Targets /\ HashAt + 4 \in Targets
    BY DEF Targets
  <2>5. UsersReadable => Legacy \in there /\ ~orphans
    <3>1. On(HashAt + 3) = Legacy
      BY <1>1, Names DEF Legacy
    <3>2. DoneAt(HashAt + 3) \/ Excused(HashAt + 3)
      BY <2>2, <2>4
    <3>3. DoneAt(HashAt + 4) \/ Excused(HashAt + 4)
      BY <2>2, <2>4
    <3> QED
      BY <1>1, <3>1, <3>2, <3>3 DEF DoneAt, Excused
  <2>6. All(TokenColumns) \subseteq there => token = "hashed"
    <3>1. DoneAt(HashAt) \/ Excused(HashAt)
      BY <2>2, <2>4
    <3> QED
      BY <1>1, <1>3, <3>1 DEF DoneAt, Excused
  <2>7. All(LlmColumns) \subseteq there => secret = "custom"
    <3>1. DoneAt(HashAt + 1) \/ Excused(HashAt + 1)
      BY <2>2, <2>4
    <3> QED
      BY <1>1, <1>3, <3>1 DEF DoneAt, Excused
  <2>8. up \intersect Apis # {} => {Admin, Plans} \subseteq there /\ ~astray
    <3> SUFFICES ASSUME NEW q \in Starters, Serves(q), q \in Apis PROVE Admin \in there /\ Plans \in there /\ ~astray
      OBVIOUS
    <3>1. line[q] > HealthyAt + 4
      BY WhereItIs DEF SchemaInv
    <3>2. line[q] > HealthyAt + 2
      BY <1>1, <1>2, <3>1
    <3> QED
      BY <3>1, <3>2 DEF SchemaInv, AdminBrought
  <2>9. ASSUME NEW x \in Everything, x \notin NotBrought, x \notin {Legacy, Admin, Plans} PROVE x \in there
    <3>1. All(Tables) \subseteq there
      BY <1>1, <1>2, <2>3 DEF SchemaInv, TablesBrought
    <3>2. On(IndexAt + 2) \in there /\ (~Sqlite => FactorColumns[1] \in there)
      <4>1. line[p] > IndexAt + 3 /\ line[p] > 23
        BY <1>1, <1>2, <2>3
      <4> QED
        BY <4>1 DEF SchemaInv, MarketBrought
    <3>3. On(IndexAt) \in there /\ (Sqlite => On(24) \in there)
      <4>1. line[p] > IndexAt /\ (Sqlite => line[p] > 24)
        BY <1>1, <1>2, <2>3, Numbers
      <4> QED
        BY <4>1 DEF SchemaInv, IndexesBrought
    <3>4. ASSUME NEW i \in Targets, i \notin {HashAt, HashAt + 1, HashAt + 3, HashAt + 4} PROVE On(i) \in there
      <4>1. DoneAt(i) \/ Excused(i)
        BY <2>2
      <4> QED
        BY <3>4, <4>1 DEF DoneAt, Excused
    <3>5. Postgres => On(10) \in there
      <4>1. line[p] > 11
        BY <1>1, <1>2, <2>3
      <4> QED
        BY <4>1 DEF SchemaInv, ReportsBrought
    <3>6. x \in {On(8), On(9), On(10)} => x \in there
      <4>1. CASE ~Postgres
        <5>1. /\ 8 \in Targets /\ 9 \in Targets /\ 10 \in Targets
              /\ \A i \in {8, 9, 10} : i \notin {HashAt, HashAt + 1, HashAt + 3, HashAt + 4}
          BY <1>1, <4>1 DEF Targets
        <5>2. On(8) \in there /\ On(9) \in there /\ On(10) \in there
          BY <3>4, <5>1
        <5> QED
          BY <5>2
      <4>2. CASE Postgres
        <5>1. On(8)[1] = "reports" /\ On(9)[1] = "reports"
          BY <1>1, Names
        <5>2. x \in {On(8), On(9)} => x \in NotBrought
          BY <1>3, <2>9, <3>5, <4>2, <5>1 DEF NotBrought, Postgres
        <5> QED
          BY <2>9, <3>5, <4>2, <5>2
      <4> QED
        BY <4>1, <4>2
    <3>7. x \in UserColumns \/ x = LlmColumns[1] \/ x = TokenColumns[1] => x \in there
      <4>1. CASE Sqlite
        <5>1. /\ 13 \in Targets /\ 15 \in Targets /\ 16 \in Targets /\ 18 \in Targets /\ HashAt = 19
          BY <4>1, Numbers DEF Targets
        <5>2. \A i \in {13, 15, 16, 18} : i \notin {HashAt, HashAt + 1, HashAt + 3, HashAt + 4}
          BY <5>1
        <5>3. On(13) \in there /\ On(15) \in there /\ On(16) \in there /\ On(18) \in there
          BY <3>4, <5>1, <5>2
        <5>4. UserColumns = {On(13), On(16)} /\ LlmColumns[1] = On(15) /\ TokenColumns[1] = On(18)
          BY <1>1, <4>1, Names
        <5> QED
          BY <5>3, <5>4
      <4>2. CASE ~Sqlite
        <5>1. x \in UserColumns \/ x = LlmColumns[1] \/ x = TokenColumns[1]
              => x[1] \in {"users", "user_llm_configs", "user_tokens"}
          BY <1>1, Names
        <5> QED
          BY <2>9, <4>2, <5>1 DEF NotBrought, Sqlite
      <4> QED
        BY <4>1, <4>2
    <3>8. x = FactorColumns[1] => x \in there
      <4>1. FactorColumns[1][1] = "marketdata_stk_factor_pro"
        BY <1>1, Names
      <4> QED
        BY <2>9, <3>2, <4>1 DEF NotBrought, Sqlite
    <3>9. x = IndexedTables[1] => x \in there
      <4>1. Sqlite => On(24) = IndexedTables[1]
        BY <1>1, WhatAbout
      <4> QED
        BY <2>9, <3>3, <4>1 DEF NotBrought, Sqlite
    <3> QED
      BY <1>1, <2>9, <3>1, <3>2, <3>3, <3>6, <3>7, <3>8, <3>9, EverythingPlaced
  <2> QED
    BY <2>5, <2>6, <2>7, <2>8, <2>9
<1>5. ASSUME allRest, died = 0, NEW d \in Starters, skipped[d]
      PROVE  up # {} \/ ~UsersReadable \/ (astray /\ holder = "after")
  <2>1. Hopeless \/ Beyond(0)
    BY <1>5 DEF SchemaInv, OneGoesOn
  <2>2. CASE Hopeless
    BY <2>2 DEF Hopeless
  <2>3. CASE Beyond(0)
    <3>1. PICK q \in Starters : line[q] > 0
      BY <2>3 DEF Beyond
    <3>2. Serves(q)
      BY <1>2, <1>5, <3>1 DEF Down
    <3> QED
      BY <3>2
  <2> QED
    BY <2>1, <2>2, <2>3
<1>6. \A p \in Starters : healthy[p] => All(MarketTables) \subseteq there
  BY <1>3 DEF SchemaInv, MarketBrought
<1> HIDE DEF up, allRest, old
<1>7. /\ up # {} /\ allRest /\ (died = 0 \/ \E p \in up : ~skipped[p])
         => /\ Everything \ old \subseteq there
            /\ UsersReadable => Legacy \in there /\ ~orphans
            /\ All(TokenColumns) \subseteq there => token = "hashed"
            /\ All(LlmColumns) \subseteq there => secret = "custom"
            /\ up \intersect Apis # {} => {Admin, Plans} \subseteq there /\ ~astray
      /\ allRest /\ died = 0 /\ (\E p \in Starters : skipped[p])
         => up # {} \/ ~UsersReadable \/ (astray /\ holder = "after")
  BY <1>4, <1>5
<1> QED
  BY <1>6, <1>7 DEF SchemaWhole, up, allRest, old

\* Once all that start have come to rest and one serves, the database has everything this
\* release works with, however their statements interleave: what a process leaves out at the
\* first error, another one does, unless one died half-way and all that serve have met an
\* error.  For any processes and deaths, on each engine, from what any earlier release left.
THEOREM SchemaAlwaysWhole == StartSpec => []SchemaWhole
<1>1. StartInit /\ [][StartNext]_startVars => []SchemaInv
  BY SchemaInit, SchemaStep, PTL
<1> QED
  BY <1>1, SchemaFollows, PTL DEF StartSpec

=============================================================================
