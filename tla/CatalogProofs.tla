--------------------------- MODULE CatalogProofs ---------------------------
(***************************************************************************)
(* For any number of hosts, catalogs and commands, whoever dies when: the  *)
(* cache file is whole, and a host that has models keeps them until the    *)
(* API has answered with others.                                           *)
(***************************************************************************)
EXTENDS Catalog, TLAPS

Phases == {"none", "fetching", "opening", "writing", "renaming", "reading"}
Loads == [phase : Phases, models : Catalogs \cup {Empty}]
Statuses == [source : {"empty", "cache", "live"}, models : Catalogs \cup {Empty},
             refreshing : BOOLEAN]

Stages == {"off", "starting", "awaiting", "ready", "dead"}

Files ==
    /\ cache \in {Missing, Invalid} \cup Catalogs
    /\ temporary \in [Hosts -> {Missing, Partial} \cup Catalogs]

HostTypes ==
    /\ hostStage \in [Hosts -> Stages]
    /\ load \in [Hosts -> Loads]
    /\ status \in [Hosts -> Statuses]
    /\ provider \in [Hosts -> {Missing, Empty} \cup Catalogs]

\* A load that is past its request holds a catalog, and what it is about to rename is
\* that catalog: no other process writes to a temporary file of its name.
Holds(h) ==
    /\ load[h].phase \in {"opening", "writing", "renaming"} => load[h].models \in Catalogs
    /\ load[h].phase = "renaming" => temporary[h] = load[h].models

\* The status describes the catalog that is registered.
Describes(h) == status[h].models = IF provider[h] = Missing THEN Empty ELSE provider[h]

\* Until it has read the cache a host loads and registers nothing.
Young(h) == hostStage[h] \in {"off", "starting"} => provider[h] = Missing /\ load[h].phase = "none"

CatalogInv == Files /\ HostTypes /\ \A h \in Hosts : Holds(h) /\ Describes(h) /\ Young(h)

USE CatalogAssumption DEF Missing, Partial, Invalid, Empty, files, In

\* The inductive invariant holds at the start.
LEMMA InitSound == CatalogInit => CatalogInv
BY DEF CatalogInit, CatalogInv, Files, HostTypes, Loads, Phases, Statuses, Stages, Holds,
       Describes, Young

\* A status keeps its type under the two assignments the code makes to it.
LEMMA StatusFields ==
    ASSUME NEW s \in Statuses, NEW source \in {"empty", "cache", "live"},
           NEW models \in Catalogs \cup {Empty}, NEW busy \in BOOLEAN
    PROVE  /\ [s EXCEPT !.refreshing = busy] \in Statuses
           /\ [s EXCEPT !.refreshing = busy].models = s.models
           /\ [s EXCEPT !.source = source, !.models = models] \in Statuses
           /\ [s EXCEPT !.source = source, !.models = models].models = models
BY DEF Statuses

\* The end of a refresh leaves the host's part of the invariant intact, and replaces a
\* registered catalog only by the live one.
LEMMA LoadedSound ==
    ASSUME CatalogInv, NEW h \in Hosts, NEW source \in {"empty", "cache", "live"},
           NEW models \in Catalogs \cup {Empty}, Loaded(h, source, models),
           source = "live" => models \in Catalogs, load[h].phase # "none"
    PROVE  /\ HostTypes'
           /\ \A g \in Hosts : Describes(g)' /\ Young(g)'
           /\ load' = [load EXCEPT ![h] = [phase |-> "none", models |-> Empty]]
           /\ \A g \in Hosts : provider[g] \in Catalogs /\ provider'[g] # provider[g] =>
                  g = h /\ source = "live" /\ provider'[g] = models /\ status'[g].source = "live"
<1>1. load' = [load EXCEPT ![h] = [phase |-> "none", models |-> Empty]]
  BY DEF Loaded, Released, Goes
<1>2. load' \in [Hosts -> Loads]
  BY <1>1 DEF CatalogInv, HostTypes, Loads, Phases
<1>3. /\ hostStage' \in [Hosts -> Stages]
      /\ \A g \in Hosts : hostStage'[g] \in {"off", "starting"} =>
             g # h /\ hostStage[g] \in {"off", "starting"}
  BY DEF Loaded, Released, CatalogInv, HostTypes, Stages, Young
<1>4. CASE ShouldRegister(h, source, models) /\ provider' = [provider EXCEPT ![h] = models]
           /\ status' = [status EXCEPT ![h] =
                            [source |-> source, models |-> models, refreshing |-> FALSE]]
  <2>1. status' \in [Hosts -> Statuses] /\ provider' \in [Hosts -> {Missing, Empty} \cup Catalogs]
    BY <1>4 DEF CatalogInv, HostTypes, Statuses
  <2>2. \A g \in Hosts : Describes(g)'
    BY <1>4, <2>1 DEF CatalogInv, HostTypes, Describes
  <2>3. \A g \in Hosts : Young(g)'
    BY <1>1, <1>3, <1>4 DEF CatalogInv, HostTypes, Young
  <2>4. provider[h] \in Catalogs => source = "live"
    BY <1>4 DEF CatalogInv, HostTypes, Describes, ShouldRegister
  <2> QED BY <1>1, <1>2, <1>3, <1>4, <2>1, <2>2, <2>3, <2>4 DEF HostTypes, CatalogInv
<1>5. CASE status' = [status EXCEPT ![h].refreshing = FALSE] /\ UNCHANGED provider
  <2>1. status' \in [Hosts -> Statuses] /\ \A g \in Hosts : status'[g].models = status[g].models
    BY <1>5 DEF CatalogInv, HostTypes, Statuses
  <2>2. \A g \in Hosts : Describes(g)' /\ Young(g)'
    BY <1>1, <1>3, <1>5, <2>1 DEF CatalogInv, HostTypes, Describes, Young
  <2> QED BY <1>1, <1>2, <1>3, <1>5, <2>1, <2>2 DEF HostTypes, CatalogInv
<1> QED BY <1>4, <1>5 DEF Loaded

\* A host's registration changes only for another live catalog.
Keeps == \A h \in Hosts :
    provider[h] \in Catalogs /\ provider'[h] # provider[h] =>
        /\ provider'[h] = load[h].models /\ provider'[h] \in Catalogs
        /\ status'[h].source = "live"

-----------------------------------------------------------------------------
(* The steps of a host *)

\* Steps that move the load on and touch neither files nor registrations.
LEMMA LoadMoves ==
    ASSUME CatalogInv, NEW h \in Hosts, NEW phase \in {"opening", "reading"},
           NEW models \in Catalogs \cup {Empty}, phase = "opening" => models \in Catalogs,
           Goes(h, phase, models), load[h].phase # "none",
           UNCHANGED <<files, hostStage, provider, status>>
    PROVE  CatalogInv' /\ Keeps
BY DEF CatalogInv, Files, HostTypes, Loads, Phases, Holds, Describes, Young, Keeps, Goes

\* A host registers the catalog of the cache, if there is one, over nothing.
LEMMA CacheLoadedSound ==
    ASSUME CatalogInv, NEW h \in Hosts, CacheLoaded(h)
    PROVE  CatalogInv' /\ Keeps
<1>1. provider[h] = Missing /\ load[h].phase = "none"
  BY DEF CacheLoaded, CatalogInv, Young
<1>2. /\ load' = [load EXCEPT ![h] = [phase |-> "fetching", models |-> Empty]]
      /\ UNCHANGED files
      /\ \A g \in Hosts \ {h} : provider'[g] = provider[g] /\ status'[g] = status[g]
  BY DEF CacheLoaded, Refreshes, Goes, CatalogInv, HostTypes
<1>3. hostStage' \in [Hosts -> Stages] /\ hostStage'[h] \in {"awaiting", "ready"}
      /\ \A g \in Hosts \ {h} : hostStage'[g] = hostStage[g]
  BY DEF CacheLoaded, CatalogInv, HostTypes, Stages
<1>4. load' \in [Hosts -> Loads]
  BY <1>2 DEF CatalogInv, HostTypes, Loads, Phases
<1>5. /\ status' \in [Hosts -> Statuses] /\ provider' \in [Hosts -> {Missing, Empty} \cup Catalogs]
      /\ Describes(h)'
  <2>1. status[h] \in Statuses
    BY DEF CatalogInv, HostTypes
  <2>2. CASE /\ Readable /\ provider' = [provider EXCEPT ![h] = cache]
             /\ Refreshes(h, [status[h] EXCEPT !.source = "cache", !.models = cache])
    <3> DEFINE read == [status[h] EXCEPT !.source = "cache", !.models = cache]
    <3>1. read \in Statuses /\ read.models = cache /\ cache \in Catalogs
      BY <2>1, <2>2, StatusFields DEF Readable
    <3>2. status' = [status EXCEPT ![h] = [read EXCEPT !.refreshing = TRUE]]
      BY <2>2 DEF Refreshes
    <3> HIDE DEF read
    <3>3. [read EXCEPT !.refreshing = TRUE] \in Statuses
          /\ [read EXCEPT !.refreshing = TRUE].models = cache
      BY <3>1, StatusFields
    <3> QED BY <2>2, <3>1, <3>2, <3>3 DEF CatalogInv, HostTypes, Describes
  <2>3. CASE UNCHANGED provider /\ Refreshes(h, status[h])
    <3>1. status' = [status EXCEPT ![h] = [status[h] EXCEPT !.refreshing = TRUE]]
      BY <2>3 DEF Refreshes
    <3>2. [status[h] EXCEPT !.refreshing = TRUE] \in Statuses
          /\ [status[h] EXCEPT !.refreshing = TRUE].models = status[h].models
      BY <2>1, StatusFields
    <3> QED BY <2>3, <3>1, <3>2 DEF CatalogInv, HostTypes, Describes
  <2> QED BY <2>2, <2>3 DEF CacheLoaded
<1> QED BY <1>1, <1>2, <1>3, <1>4, <1>5
        DEF CatalogInv, Files, HostTypes, Holds, Describes, Young, Keeps

\* A command starts a load or joins the one in flight.
LEMMA CommandSound ==
    ASSUME CatalogInv, NEW h \in Hosts, Command(h)
    PROVE  CatalogInv' /\ Keeps
<1>1. /\ hostStage[h] = "ready"
      /\ UNCHANGED <<files, hostStage, provider>>
  BY DEF Command
<1>2. CASE Refreshes(h, status[h])
  <2>1. /\ load' = [load EXCEPT ![h] = [phase |-> "fetching", models |-> Empty]]
        /\ status' = [status EXCEPT ![h] = [status[h] EXCEPT !.refreshing = TRUE]]
    BY <1>2 DEF Refreshes, Goes
  <2>2. load' \in [Hosts -> Loads]
    BY <2>1 DEF CatalogInv, HostTypes, Loads, Phases
  <2>3. /\ [status[h] EXCEPT !.refreshing = TRUE] \in Statuses
        /\ [status[h] EXCEPT !.refreshing = TRUE].models = status[h].models
    BY StatusFields DEF CatalogInv, HostTypes
  <2>4. /\ status' \in [Hosts -> Statuses]
        /\ \A g \in Hosts : status'[g].models = status[g].models
    BY <2>1, <2>3 DEF CatalogInv, HostTypes
  <2> QED BY <1>1, <2>1, <2>2, <2>4
          DEF CatalogInv, Files, HostTypes, Holds, Describes, Young, Keeps
<1>3. CASE UNCHANGED <<load, status>>
  BY <1>1, <1>3 DEF CatalogInv, Files, HostTypes, Holds, Describes, Young, Keeps
<1> QED BY <1>2, <1>3 DEF Command

\* A refresh that was aborted settles and changes nothing else.
LEMMA FetchAbortedSound ==
    ASSUME CatalogInv, NEW h \in Hosts, FetchAborted(h)
    PROVE  CatalogInv' /\ Keeps
<1>1. /\ load' = [load EXCEPT ![h] = [phase |-> "none", models |-> Empty]]
      /\ status' = [status EXCEPT ![h].refreshing = FALSE]
      /\ UNCHANGED <<files, provider>>
      /\ load[h].phase # "none"
  BY DEF FetchAborted, LoadAborted, Released, Quietly, Goes
<1>2. load' \in [Hosts -> Loads]
  BY <1>1 DEF CatalogInv, HostTypes, Loads, Phases
<1>3. status' \in [Hosts -> Statuses] /\ \A g \in Hosts : status'[g].models = status[g].models
  BY <1>1 DEF CatalogInv, HostTypes, Statuses
<1>4. /\ hostStage' \in [Hosts -> Stages]
      /\ \A g \in Hosts : hostStage'[g] \in {"off", "starting"} =>
             g # h /\ hostStage[g] \in {"off", "starting"}
  BY <1>1 DEF FetchAborted, LoadAborted, Released, CatalogInv, HostTypes, Stages, Young
<1> QED BY <1>1, <1>2, <1>3, <1>4
        DEF CatalogInv, Files, HostTypes, Holds, Describes, Young, Keeps

\* The temporary file is this host's own, and whole once it is written.
LEMMA WritesSound ==
    ASSUME CatalogInv, NEW h \in Hosts, WriteStarts(h) \/ WriteEnds(h)
    PROVE  CatalogInv' /\ Keeps
<1>1. /\ UNCHANGED <<cache, hostStage, provider, status>>
      /\ load[h].phase \in {"opening", "writing"} /\ load[h].models \in Catalogs
  BY DEF WriteStarts, WriteEnds, CatalogInv, Holds
<1>2. CASE WriteStarts(h)
  BY <1>1, <1>2 DEF WriteStarts, TemporaryOf, Goes, CatalogInv, Files, HostTypes, Loads, Phases,
                    Holds, Describes, Young, Keeps
<1>3. CASE WriteEnds(h)
  BY <1>1, <1>3 DEF WriteEnds, TemporaryOf, Goes, CatalogInv, Files, HostTypes, Loads, Phases,
                    Holds, Describes, Young, Keeps
<1> QED BY <1>2, <1>3

\* What is renamed over the cache file is the host's live catalog.
LEMMA StoredSound ==
    ASSUME CatalogInv, NEW h \in Hosts, Renames(h) \/ CacheWriteFails(h)
    PROVE  CatalogInv' /\ Keeps
<1>1. /\ load[h].phase \in {"opening", "writing", "renaming"}
      /\ Loaded(h, "live", load[h].models)
      /\ temporary' = [temporary EXCEPT ![h] = Missing]
  BY DEF Renames, CacheWriteFails, TemporaryOf
<1>2. load[h].models \in Catalogs
  BY <1>1 DEF CatalogInv, Holds
<1>3. cache' \in {Missing, Invalid} \cup Catalogs
  BY <1>2 DEF Renames, CacheWriteFails, TemporaryOf, CatalogInv, Files, Holds
<1>4. /\ HostTypes'
      /\ \A g \in Hosts : Describes(g)' /\ Young(g)'
      /\ load' = [load EXCEPT ![h] = [phase |-> "none", models |-> Empty]]
      /\ Keeps
  <2>1. load[h].phase # "none"
    BY <1>1
  <2> QED BY <1>1, <1>2, <2>1, LoadedSound DEF Keeps
<1>5. \A g \in Hosts : Holds(g)'
  BY <1>1, <1>4 DEF CatalogInv, Files, HostTypes, Holds
<1> QED BY <1>1, <1>3, <1>4, <1>5 DEF CatalogInv, Files

\* The cached catalog, or none, replaces nothing.
LEMMA ReadsCacheSound ==
    ASSUME CatalogInv, NEW h \in Hosts, ReadsCache(h)
    PROVE  CatalogInv' /\ Keeps
<1>1. PICK source \in {"empty", "cache"}, models \in Catalogs \cup {Empty} :
          Loaded(h, source, models)
  BY DEF ReadsCache, Readable
<1>2. /\ HostTypes'
      /\ \A g \in Hosts : Describes(g)' /\ Young(g)'
      /\ load' = [load EXCEPT ![h] = [phase |-> "none", models |-> Empty]]
      /\ Keeps
  <2>1. load[h].phase # "none" /\ source # "live"
    BY DEF ReadsCache
  <2> QED BY <1>1, <2>1, LoadedSound DEF Keeps
<1>3. \A g \in Hosts : Holds(g)'
  BY <1>2 DEF ReadsCache, CatalogInv, Files, HostTypes, Holds
<1> QED BY <1>2, <1>3 DEF ReadsCache, CatalogInv, Files

\* Starting and dying change the stage of the host alone.
LEMMA StagesSound ==
    ASSUME CatalogInv, NEW h \in Hosts, Start(h) \/ Dispose(h) \/ Dies(h)
    PROVE  CatalogInv' /\ Keeps
BY DEF Start, Dispose, Dies, CatalogInv, Files, HostTypes, Stages, Holds, Describes, Young, Keeps

\* An answer that is used holds a catalog.
LEMMA FetchesSound ==
    ASSUME CatalogInv, NEW h \in Hosts, FetchSucceeds(h) \/ FetchFails(h)
    PROVE  CatalogInv' /\ Keeps
<1>1. CASE FetchSucceeds(h)
  <2>1. PICK models \in Catalogs : Goes(h, "opening", models)
    BY <1>1 DEF FetchSucceeds
  <2> QED BY <1>1, <2>1, LoadMoves DEF FetchSucceeds
<1>2. CASE FetchFails(h)
  BY <1>2, LoadMoves DEF FetchFails
<1> QED BY <1>1, <1>2

\* Every step keeps the invariant and every host's registration.
LEMMA StepSound ==
    ASSUME CatalogInv, [CatalogNext]_catalogVars
    PROVE  CatalogInv' /\ Keeps
<1>1. CASE UNCHANGED catalogVars
  BY <1>1 DEF catalogVars, CatalogInv, Files, HostTypes, Holds, Describes, Young, Keeps
<1>2. CASE CatalogNext
  <2>1. PICK h \in Hosts :
            \/ Start(h) \/ CacheLoaded(h) \/ Command(h)
            \/ FetchSucceeds(h) \/ FetchFails(h) \/ FetchAborted(h)
            \/ WriteStarts(h) \/ WriteEnds(h) \/ Renames(h) \/ CacheWriteFails(h)
            \/ ReadsCache(h) \/ Dispose(h) \/ Dies(h)
    BY <1>2 DEF CatalogNext
  <2> QED BY <2>1, CacheLoadedSound, CommandSound, FetchesSound, FetchAbortedSound,
             WritesSound, StoredSound, ReadsCacheSound, StagesSound
<1> QED BY <1>1, <1>2

-----------------------------------------------------------------------------
(* Refreshes are coalesced: who waits, waits for the one in flight *)

\* The status of host h says whether its refresh runs, and whether it has models; those
\* who wait are commands it issued, or its start, while a refresh runs.
Waits(h) ==
    /\ status[h].refreshing <=> (load[h].phase # "none")
    /\ (status[h].source = "empty") <=> (status[h].models = Empty)
    /\ (waiting[h] > 0 \/ hostStage[h] = "awaiting") => load[h].phase # "none"
    /\ commands[h] \in 0..MaxCommands[h] /\ waiting[h] \in 0..commands[h]

Coalesced ==
    /\ aborted \in [Hosts -> BOOLEAN]
    /\ commands \in [Hosts -> Nat] /\ waiting \in [Hosts -> Nat]
    /\ \A h \in Hosts : Waits(h)

\* Nobody waits at the start.
LEMMA InitCoalesced == CatalogInit => Coalesced
BY DEF CatalogInit, Coalesced, Waits

\* The end of a refresh releases all who wait for it.
LEMMA LoadedCoalesced ==
    ASSUME CatalogInv, Coalesced, NEW h \in Hosts, NEW source \in {"empty", "cache", "live"},
           NEW models \in Catalogs \cup {Empty}, Loaded(h, source, models),
           (source = "empty") <=> (models = Empty)
    PROVE  Coalesced'
<1>1. /\ load' = [load EXCEPT ![h] = [phase |-> "none", models |-> Empty]]
      /\ waiting' = [waiting EXCEPT ![h] = 0]
      /\ hostStage' = [hostStage EXCEPT ![h] = IF @ = "awaiting" THEN "ready" ELSE @]
      /\ UNCHANGED <<aborted, commands>>
  BY DEF Loaded, Released, Goes
<1>2. /\ ~status'[h].refreshing
      /\ (status'[h].source = "empty") <=> (status'[h].models = Empty)
      /\ \A g \in Hosts \ {h} : status'[g] = status[g]
  BY DEF Loaded, CatalogInv, HostTypes, Statuses, Coalesced, Waits
<1>3. Waits(h)'
  BY <1>1, <1>2 DEF CatalogInv, HostTypes, Loads, Coalesced, Waits
<1>4. ASSUME NEW g \in Hosts, g # h PROVE Waits(g)'
  BY <1>1, <1>2, <1>4 DEF CatalogInv, HostTypes, Coalesced, Waits
<1>5. waiting' \in [Hosts -> Nat]
  BY <1>1 DEF Coalesced
<1> QED BY <1>1, <1>3, <1>4, <1>5 DEF Coalesced

\* A refresh begins with the start of the host or with a command.
LEMMA BeginsCoalesced ==
    ASSUME CatalogInv, Coalesced, NEW h \in Hosts, CacheLoaded(h) \/ Command(h)
    PROVE  Coalesced'
<1>1. CASE CacheLoaded(h)
  <2>1. /\ load' = [load EXCEPT ![h] = [phase |-> "fetching", models |-> Empty]]
        /\ UNCHANGED <<aborted, commands, waiting>>
        /\ \A g \in Hosts \ {h} : status'[g] = status[g] /\ hostStage'[g] = hostStage[g]
    BY <1>1 DEF CacheLoaded, Refreshes, Goes, CatalogInv, HostTypes
  <2>2. /\ status'[h].refreshing
        /\ (status'[h].source = "empty") <=> (status'[h].models = Empty)
    <3>1. status[h] \in Statuses /\ status \in [Hosts -> Statuses]
      BY DEF CatalogInv, HostTypes
    <3>2. PICK s \in {status[h], [status[h] EXCEPT !.source = "cache", !.models = cache]} :
              /\ status' = [status EXCEPT ![h] = [s EXCEPT !.refreshing = TRUE]]
              /\ s = status[h] \/ cache \in Catalogs
      BY <1>1 DEF CacheLoaded, Refreshes, Readable
    <3>3. s \in Statuses /\ ((s.source = "empty") <=> (s.models = Empty))
      BY <3>1, <3>2 DEF Statuses, Coalesced, Waits
    <3>4. status'[h] = [s EXCEPT !.refreshing = TRUE]
      BY <3>1, <3>2
    <3> QED BY <3>3, <3>4 DEF Statuses
  <2>3. Waits(h)'
    BY <2>1, <2>2 DEF CatalogInv, HostTypes, Loads, Coalesced, Waits
  <2>4. ASSUME NEW g \in Hosts, g # h PROVE Waits(g)'
    BY <2>1, <2>4 DEF CatalogInv, HostTypes, Coalesced, Waits
  <2> QED BY <2>1, <2>3, <2>4 DEF Coalesced
<1>2. CASE Command(h)
  <2>1. /\ commands' = [commands EXCEPT ![h] = @ + 1] /\ waiting' = [waiting EXCEPT ![h] = @ + 1]
        /\ commands[h] < MaxCommands[h]
        /\ UNCHANGED <<hostStage, aborted>>
        /\ \A g \in Hosts \ {h} : load'[g] = load[g] /\ status'[g] = status[g]
    BY <1>2 DEF Command, Refreshes, Goes, CatalogInv, HostTypes
  <2>2. /\ status'[h].refreshing /\ load'[h].phase # "none"
        /\ status'[h].source = status[h].source /\ status'[h].models = status[h].models
    BY <1>2 DEF Command, Refreshes, Goes, CatalogInv, HostTypes, Statuses, Loads, Coalesced, Waits
  <2>3. Waits(h)'
    BY <2>1, <2>2 DEF Coalesced, Waits
  <2>4. ASSUME NEW g \in Hosts, g # h PROVE Waits(g)'
    BY <2>1, <2>4 DEF Coalesced, Waits
  <2>5. commands' \in [Hosts -> Nat] /\ waiting' \in [Hosts -> Nat]
    BY <2>1 DEF Coalesced
  <2> QED BY <2>1, <2>3, <2>4, <2>5 DEF Coalesced
<1> QED BY <1>1, <1>2

\* A refresh goes on, or is aborted by dispose().
LEMMA FetchCoalesced ==
    ASSUME CatalogInv, Coalesced, NEW h \in Hosts,
           FetchSucceeds(h) \/ FetchFails(h) \/ FetchAborted(h) \/ WriteStarts(h) \/ WriteEnds(h)
    PROVE  Coalesced'
<1>1. CASE FetchAborted(h)
  <2>1. /\ load' = [load EXCEPT ![h] = [phase |-> "none", models |-> Empty]]
        /\ waiting' = [waiting EXCEPT ![h] = 0]
        /\ hostStage' = [hostStage EXCEPT ![h] = IF @ = "awaiting" THEN "ready" ELSE @]
        /\ status' = [status EXCEPT ![h].refreshing = FALSE]
        /\ UNCHANGED <<aborted, commands>>
    BY <1>1 DEF FetchAborted, LoadAborted, Released, Quietly, Goes
  <2>2. Waits(h)'
    BY <2>1 DEF CatalogInv, HostTypes, Statuses, Loads, Coalesced, Waits
  <2>3. ASSUME NEW g \in Hosts, g # h PROVE Waits(g)'
    BY <2>1, <2>3 DEF CatalogInv, HostTypes, Coalesced, Waits
  <2>4. waiting' \in [Hosts -> Nat]
    BY <2>1 DEF Coalesced
  <2> QED BY <2>1, <2>2, <2>3, <2>4 DEF Coalesced
<1>2. CASE FetchSucceeds(h) \/ FetchFails(h) \/ WriteStarts(h) \/ WriteEnds(h)
  <2>1. /\ load[h].phase # "none" /\ load'[h].phase # "none"
        /\ \A g \in Hosts \ {h} : load'[g] = load[g]
        /\ UNCHANGED <<hostStage, status, aborted, commands, waiting>>
    BY <1>2 DEF FetchSucceeds, FetchFails, WriteStarts, WriteEnds, Goes, CatalogInv, HostTypes,
                Loads
  <2> QED BY <2>1 DEF Coalesced, Waits
<1> QED BY <1>1, <1>2

\* Every step keeps it.
LEMMA StepCoalesced ==
    ASSUME CatalogInv, Coalesced, [CatalogNext]_catalogVars
    PROVE  Coalesced'
<1>1. CASE UNCHANGED catalogVars
  BY <1>1 DEF catalogVars, Coalesced, Waits
<1>2. ASSUME NEW h \in Hosts, Renames(h) \/ CacheWriteFails(h) PROVE Coalesced'
  <2>1. Loaded(h, "live", load[h].models) /\ load[h].models \in Catalogs
    BY <1>2 DEF Renames, CacheWriteFails, CatalogInv, Holds
  <2> QED BY <2>1, LoadedCoalesced
<1>3. ASSUME NEW h \in Hosts, ReadsCache(h) PROVE Coalesced'
  <2>1. PICK source \in {"empty", "cache"}, models \in Catalogs \cup {Empty} :
            Loaded(h, source, models) /\ ((source = "empty") <=> (models = Empty))
    BY <1>3 DEF ReadsCache, Readable
  <2> QED BY <2>1, LoadedCoalesced
<1>4. ASSUME NEW h \in Hosts, Start(h) \/ Dispose(h) \/ Dies(h) PROVE Coalesced'
  <2>1. CASE Start(h) \/ Dispose(h)
    <3>1. /\ UNCHANGED <<load, status, commands, waiting>>
          /\ \A g \in Hosts : hostStage'[g] = "awaiting" => hostStage[g] = "awaiting"
          /\ aborted' \in [Hosts -> BOOLEAN]
      BY <2>1 DEF Start, Dispose, CatalogInv, HostTypes, Coalesced
    <3> QED BY <3>1 DEF Coalesced, Waits
  <2>2. CASE Dies(h)
    <3>1. /\ UNCHANGED <<load, status, commands, aborted>>
          /\ \A g \in Hosts : hostStage'[g] = "awaiting" => hostStage[g] = "awaiting"
          /\ waiting' \in [Hosts -> Nat] /\ \A g \in Hosts : waiting'[g] \in {0, waiting[g]}
      BY <2>2 DEF Dies, CatalogInv, HostTypes, Coalesced
    <3> QED BY <3>1 DEF Coalesced, Waits
  <2> QED BY <1>4, <2>1, <2>2
<1> QED BY <1>1, <1>2, <1>3, <1>4, BeginsCoalesced, FetchCoalesced DEF CatalogNext

-----------------------------------------------------------------------------
\* The cache file never holds a part of a catalog: readCommandCodeModelsCache() of any
\* process finds a whole one, or a file it rejects, whoever writes and dies when.
THEOREM CacheIsWhole == CatalogSpec => []CacheFileWhole
<1>1. CatalogInv => CacheFileWhole
  BY DEF CatalogInv, Files, CacheFileWhole
<1> QED BY <1>1, InitSound, StepSound, PTL DEF CatalogSpec

\* A registered catalog is only ever replaced by one the API just answered with:
\* refreshCatalog() registers neither an older cached one nor none over it.
THEOREM RegistrationsAdvance == CatalogSpec => CatalogNeverRegresses
<1>1. CatalogInv /\ [CatalogNext]_catalogVars => [Keeps]_catalogVars
  BY StepSound
<1>2. CatalogSpec => [][Keeps]_catalogVars
  BY <1>1, InitSound, StepSound, PTL DEF CatalogSpec
<1> QED BY <1>2 DEF CatalogNeverRegresses, Keeps

\* Types, and that refreshes are coalesced: the status says that a refresh runs exactly
\* while one does, and only then a command or the start of the host waits for it.
THEOREM TypesOfCatalog == CatalogSpec => []CatalogTypeOK
<1>1. CatalogInv /\ Coalesced => CatalogTypeOK
  <2> SUFFICES ASSUME CatalogInv, Coalesced PROVE CatalogTypeOK
    OBVIOUS
  <2>1. \A h \in Hosts : hostStage[h] \in Stages /\ load[h].phase \in Phases
    BY DEF CatalogInv, HostTypes, Loads
  <2> QED BY <2>1 DEF CatalogInv, Files, HostTypes, Describes, Stages, Phases, Coalesced, Waits,
                      CatalogTypeOK
<1>2. CatalogInit => CatalogInv /\ Coalesced
  BY InitSound, InitCoalesced
<1>3. CatalogInv /\ Coalesced /\ [CatalogNext]_catalogVars => (CatalogInv /\ Coalesced)'
  BY StepSound, StepCoalesced
<1> QED BY <1>1, <1>2, <1>3, PTL DEF CatalogSpec
=============================================================================
