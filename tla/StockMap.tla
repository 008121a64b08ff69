------------------------------ MODULE StockMap ------------------------------
(***************************************************************************)
(* The map from the names of stocks to their codes, which every process    *)
(* keeps in memory and renews once a day (api/services/symbol_service.py,  *)
(* load_cn_stock_map): from the file all processes share if it carries the *)
(* day's date, else from the vendor, with one lock per process around all  *)
(* of it.  A map is told by the day it was downloaded, 0 is an empty one.  *)
(***************************************************************************)
EXTENDS Naturals, FiniteSets

CONSTANTS
    Askers,          \* the threads that ask for the map
    InApi,           \* those of them in the API
    LastMapDay,      \* bound: the days 1..LastMapDay
    MaxMapTroubles   \* bound: failing downloads and writes, restarts

ASSUME MapAssumption == LastMapDay \in Nat \ {0} /\ MaxMapTroubles \in Nat

VARIABLES
    mapDay,      \* date.today()
    known,       \* by process: _cn_stock_map and _cn_stock_map_cache_date
    disk,        \* the file: its map and its date
    mapAt,       \* by caller: where its call is, with the lock from "fetching" on
    staleMap,    \* by caller: the map it falls back to
    freshMap,    \* by caller: the map it has downloaded
    mapAnswer,   \* by caller: the map its last call returned
    mapTroubles  \* failures so far

mapVars == <<mapDay, known, disk, mapAt, staleMap, freshMap, mapAnswer, mapTroubles>>

Programs == {"api", "scheduler"}   \* the processes
ProgramOf(c) == IF c \in InApi THEN "api" ELSE "scheduler"

MapInit ==
    /\ mapDay = 1 /\ mapTroubles = 0
    /\ known = [p \in Programs |-> [map |-> 0, date |-> 0]]
    /\ disk = [map |-> 0, date |-> 0]
    /\ mapAt = [c \in Askers |-> "idle"]
    /\ staleMap = [c \in Askers |-> 0] /\ freshMap = [c \in Askers |-> 0]
    /\ mapAnswer = [c \in Askers |-> 0]

-----------------------------------------------------------------------------
Current(p) == known[p].map # 0 /\ known[p].date = mapDay

\* _set_memory_stock_map: whatever the map, it is today's unless the file gave a date.
Remember(c, map) ==
    known' = [known EXCEPT ![ProgramOf(c)] = [map |-> map, date |-> mapDay]]

Return(c, map) ==
    /\ mapAnswer' = [mapAnswer EXCEPT ![c] = map]
    /\ mapAt' = [mapAt EXCEPT ![c] = "idle"]
    /\ staleMap' = [staleMap EXCEPT ![c] = 0] /\ freshMap' = [freshMap EXCEPT ![c] = 0]

\* Somebody of the process has _cn_stock_fetch_lock.
Locked(p) == \E c \in Askers : ProgramOf(c) = p /\ mapAt[c] \in {"fetching", "writing", "keeping"}

\* What is fresh is returned without the lock; else what there is is copied, to fall back to.
AskForMap(c) ==
    /\ mapAt[c] = "idle"
    /\ IF Current(ProgramOf(c)) THEN Return(c, known[ProgramOf(c)].map)
       ELSE /\ mapAt' = [mapAt EXCEPT ![c] = "waiting"]
            /\ staleMap' = [staleMap EXCEPT ![c] = known[ProgramOf(c)].map]
            /\ UNCHANGED <<freshMap, mapAnswer>>
    /\ UNCHANGED <<mapDay, known, disk, mapTroubles>>

\* Mutant of FallBack: the copy made before the wait for the lock comes first.
CopyFirst(c) == IF staleMap[c] # 0 THEN staleMap[c] ELSE known[ProgramOf(c)].map

FallBack(c) == IF known[ProgramOf(c)].map # 0 THEN known[ProgramOf(c)].map ELSE staleMap[c]

\* The file as it is read: nothing while another process writes it, under the same name.
FileSeen(c) ==
    {disk} \union (IF \E d \in Askers : ProgramOf(d) # ProgramOf(c) /\ mapAt[d] = "writing"
                   THEN {[map |-> 0, date |-> 0]} ELSE {})

\* With the lock: someone may have been faster, or another process.
LookAgain(c) ==
    /\ mapAt[c] = "waiting" /\ ~Locked(ProgramOf(c))
    /\ \/ /\ Current(ProgramOf(c)) /\ Return(c, known[ProgramOf(c)].map)
          /\ UNCHANGED known
       \/ \E file \in FileSeen(c) :
             /\ ~Current(ProgramOf(c)) /\ file.map # 0 /\ file.date = mapDay
             /\ Remember(c, file.map) /\ Return(c, file.map)
       \/ \E file \in FileSeen(c) :
             /\ ~Current(ProgramOf(c)) /\ (file.map = 0 \/ file.date # mapDay)
             /\ mapAt' = [mapAt EXCEPT ![c] = "fetching"]
             /\ staleMap' = [staleMap EXCEPT ![c] = IF FallBack(c) # 0 THEN FallBack(c) ELSE file.map]
             /\ UNCHANGED <<known, freshMap, mapAnswer>>
    /\ UNCHANGED <<mapDay, disk, mapTroubles>>

Downloaded(c) ==
    /\ mapAt[c] = "fetching"
    /\ mapAt' = [mapAt EXCEPT ![c] = "writing"]
    /\ freshMap' = [freshMap EXCEPT ![c] = mapDay]
    /\ UNCHANGED <<mapDay, known, disk, staleMap, mapAnswer, mapTroubles>>

\* An error, a timeout or an empty table: the map it falls back to becomes today's.
DownloadFails(c) ==
    /\ mapAt[c] = "fetching" /\ mapTroubles < MaxMapTroubles
    /\ IF staleMap[c] # 0 THEN Remember(c, staleMap[c]) ELSE UNCHANGED known
    /\ Return(c, staleMap[c])
    /\ mapTroubles' = mapTroubles + 1
    /\ UNCHANGED <<mapDay, disk>>

\* _write_persistent_stock_map, a failure of which is logged.
WriteFile(c) ==
    /\ mapAt[c] = "writing"
    /\ mapAt' = [mapAt EXCEPT ![c] = "keeping"]
    /\ \/ disk' = [map |-> freshMap[c], date |-> mapDay] /\ UNCHANGED mapTroubles
       \/ /\ mapTroubles < MaxMapTroubles /\ mapTroubles' = mapTroubles + 1
          /\ UNCHANGED disk
    /\ UNCHANGED <<mapDay, known, staleMap, freshMap, mapAnswer>>

KeepMap(c) ==
    /\ mapAt[c] = "keeping"
    /\ Remember(c, freshMap[c]) /\ Return(c, freshMap[c])
    /\ UNCHANGED <<mapDay, disk, mapTroubles>>

ProgramRestarts(p) ==
    /\ mapTroubles < MaxMapTroubles /\ mapTroubles' = mapTroubles + 1
    /\ known' = [known EXCEPT ![p] = [map |-> 0, date |-> 0]]
    /\ LET clear(f, nil) == [c \in Askers |-> IF ProgramOf(c) = p THEN nil ELSE f[c]] IN
       /\ mapAt' = clear(mapAt, "idle") /\ staleMap' = clear(staleMap, 0)
       /\ freshMap' = clear(freshMap, 0) /\ mapAnswer' = clear(mapAnswer, 0)
    /\ UNCHANGED <<mapDay, disk>>

\* Between a download and its writing there is no more than one midnight.
Midnight ==
    /\ mapDay < LastMapDay /\ mapDay' = mapDay + 1
    /\ \A c \in Askers : freshMap[c] \in {0, mapDay}
    /\ UNCHANGED <<known, disk, mapAt, staleMap, freshMap, mapAnswer, mapTroubles>>

MapStep(c) == LookAgain(c) \/ Downloaded(c) \/ DownloadFails(c) \/ WriteFile(c) \/ KeepMap(c)

MapNext ==
    \/ \E c \in Askers : AskForMap(c) \/ MapStep(c)
    \/ \E p \in Programs : ProgramRestarts(p)
    \/ Midnight

MapSpec == MapInit /\ [][MapNext]_mapVars

-----------------------------------------------------------------------------
MapTypeOK ==
    LET Map == [map : 0..LastMapDay, date : 0..LastMapDay] IN
    /\ mapDay \in 1..LastMapDay /\ mapTroubles \in 0..MaxMapTroubles
    /\ known \in [Programs -> Map] /\ disk \in Map
    /\ mapAt \in [Askers -> {"idle", "waiting", "fetching", "writing", "keeping"}]
    /\ staleMap \in [Askers -> 0..LastMapDay] /\ freshMap \in [Askers -> 0..LastMapDay]
    /\ mapAnswer \in [Askers -> 0..LastMapDay]

\* Once a process knows names it does not forget them nor go back to an older map, whatever
\* fails and however long a thread has waited for the lock; it answers with nothing only if
\* it knows nothing; and the file is dated with the day of its map, or the day after when
\* midnight comes between the download and the writing.
StockMapHonest ==
    /\ [][\A p \in Programs : known'[p].map >= known[p].map \/ known'[p].date = 0]_mapVars
    /\ [][\A c \in Askers : (mapAt[c] # "idle" /\ mapAt'[c] = "idle" /\ mapAnswer'[c] = 0)
             => known'[ProgramOf(c)].map = 0]_mapVars
    /\ [](disk.date \in disk.map..(disk.map + 1))
=============================================================================
