------------------------------ MODULE Catalog ------------------------------
(***************************************************************************)
(* The model catalog (src/runtime.ts, src/models.ts).  A host process      *)
(* registers the catalog it finds in the cache file, refreshes it from the *)
(* network in the background, and again on /commandcode-refresh.  A live   *)
(* catalog is written to a temporary file that is renamed over the cache   *)
(* file; the processes of a machine share that file, and any of them may   *)
(* die at any moment.                                                      *)
(***************************************************************************)
EXTENDS Integers, FiniteSets

CONSTANTS
    Hosts,        \* host processes, each with a pid of its own
    Catalogs,     \* the non-empty catalogs the API may answer with
    MaxCommands   \* bound: /commandcode-refresh commands of each host

\* What the cache file, a temporary file or the provider may hold besides a catalog.
Missing == "missing"     \* no file; nothing registered
Partial == "partial"     \* a file that is being written, or was when its writer died
Invalid == "invalid"     \* a file of another version, or not ours
Empty   == "empty"       \* a catalog without models

ASSUME CatalogAssumption ==
    /\ Catalogs \cap {Missing, Partial, Invalid, Empty} = {}
    /\ MaxCommands \in [Hosts -> Nat]

VARIABLES
    cache,      \* the file at cachePath
    temporary,  \* temporary files, by their name
    hostStage,  \* each host: off, starting (initialize reads the cache), awaiting
                \* (initialize awaits the refresh), ready, dead
    load,       \* loadModels(): its phase and the live catalog it holds
    provider,   \* the catalog passed to the last registerProvider()
    status,     \* source, models (standing for modelCount) and refreshing
    aborted,    \* this.shutdown.signal.aborted
    commands,   \* commands issued
    waiting     \* commands awaiting the refresh in flight

catalogVars == <<cache, temporary, hostStage, load, provider, status, aborted, commands, waiting>>
files == <<cache, temporary>>

\* Mutant: the temporary name leaves the pid out.
SharedTemporary(h) == CHOOSE g \in Hosts : TRUE

\* `${cachePath}.${process.pid}.tmp`
TemporaryOf(h) == h

CatalogInit ==
    /\ cache \in {Missing, Invalid} \cup Catalogs
    /\ temporary = [h \in Hosts |-> Missing]
    /\ hostStage = [h \in Hosts |-> "off"]
    /\ load = [h \in Hosts |-> [phase |-> "none", models |-> Empty]]
    /\ provider = [h \in Hosts |-> Missing]
    /\ status = [h \in Hosts |-> [source |-> "empty", models |-> Empty, refreshing |-> FALSE]]
    /\ aborted = [h \in Hosts |-> FALSE]
    /\ commands = [h \in Hosts |-> 0] /\ waiting = [h \in Hosts |-> 0]

\* readCommandCodeModelsCache(): anything but a whole catalog is rejected.
Readable == cache \in Catalogs

In(h, phase) == load[h].phase = phase /\ hostStage[h] # "dead"
Goes(h, phase, models) == load' = [load EXCEPT ![h] = [phase |-> phase, models |-> models]]

-----------------------------------------------------------------------------
(* initialize() *)

Start(h) ==
    /\ hostStage[h] = "off"
    /\ hostStage' = [hostStage EXCEPT ![h] = "starting"]
    /\ UNCHANGED <<files, load, provider, status, aborted, commands, waiting>>

\* refresh() with none in flight; `s` is the status as the caller left it.
Refreshes(h, s) ==
    /\ Goes(h, "fetching", Empty)
    /\ status' = [status EXCEPT ![h] = [s EXCEPT !.refreshing = TRUE]]

CacheLoaded(h) ==
    /\ hostStage[h] = "starting"
    /\ \/ /\ Readable
          /\ provider' = [provider EXCEPT ![h] = cache]
          /\ hostStage' = [hostStage EXCEPT ![h] = "ready"]
          /\ Refreshes(h, [status[h] EXCEPT !.source = "cache", !.models = cache])
       \/ /\ ~Readable
          /\ hostStage' = [hostStage EXCEPT ![h] = "awaiting"]
          /\ Refreshes(h, status[h])
          /\ UNCHANGED provider
    /\ UNCHANGED <<files, aborted, commands, waiting>>

\* /commandcode-refresh joins the refresh in flight or starts one.
Command(h) ==
    /\ hostStage[h] = "ready" /\ commands[h] < MaxCommands[h]
    /\ commands' = [commands EXCEPT ![h] = @ + 1]
    /\ waiting' = [waiting EXCEPT ![h] = @ + 1]
    /\ \/ load[h].phase = "none" /\ Refreshes(h, status[h])
       \/ load[h].phase # "none" /\ UNCHANGED <<load, status>>
    /\ UNCHANGED <<files, hostStage, provider, aborted>>

-----------------------------------------------------------------------------
(* The end of refreshCatalog() *)

\* Mutant: whatever was loaded is registered.
RegistersAll(h, source, models) == TRUE

ShouldRegister(h, source, models) ==
    \/ provider[h] = Missing
    \/ source = "live"
    \/ status[h].models = Empty /\ models # Empty

\* Everyone who waited for the refresh goes on.
Released(h) ==
    /\ Goes(h, "none", Empty)
    /\ waiting' = [waiting EXCEPT ![h] = 0]
    /\ hostStage' = [hostStage EXCEPT ![h] = IF @ = "awaiting" THEN "ready" ELSE @]

Loaded(h, source, models) ==
    /\ Released(h)
    /\ \/ /\ ShouldRegister(h, source, models)
          /\ provider' = [provider EXCEPT ![h] = models]
          /\ status' = [status EXCEPT ![h] =
                           [source |-> source, models |-> models, refreshing |-> FALSE]]
       \/ /\ ~ShouldRegister(h, source, models)
          /\ status' = [status EXCEPT ![h].refreshing = FALSE]
          /\ UNCHANGED provider
    /\ UNCHANGED <<aborted, commands>>

\* Mutant: the aborted branch returns at once.
QuietlyLeft(h) == UNCHANGED status

\* The branch of the catch block for a refresh that dispose() aborted.
Quietly(h) == status' = [status EXCEPT ![h].refreshing = FALSE]

LoadAborted(h) ==
    /\ Released(h)
    /\ Quietly(h)
    /\ UNCHANGED <<files, provider, aborted, commands>>

-----------------------------------------------------------------------------
(* loadCommandCodeModels() *)

\* The API answers in time; an empty list is an error.
FetchSucceeds(h) ==
    /\ In(h, "fetching") /\ ~aborted[h]
    /\ \E models \in Catalogs : Goes(h, "opening", models)
    /\ UNCHANGED <<files, hostStage, provider, status, aborted, commands, waiting>>

\* An error status, an unrecognised or empty answer, or the timeout.
FetchFails(h) ==
    /\ In(h, "fetching") /\ ~aborted[h]
    /\ Goes(h, "reading", Empty)
    /\ UNCHANGED <<files, hostStage, provider, status, aborted, commands, waiting>>

\* The external signal rejects runWithTimeout(), also when it was aborted before.
FetchAborted(h) ==
    /\ In(h, "fetching") /\ aborted[h]
    /\ LoadAborted(h)

\* writeFile(): the temporary file is created, then filled.
WriteStarts(h) ==
    /\ In(h, "opening")
    /\ temporary' = [temporary EXCEPT ![TemporaryOf(h)] = Partial]
    /\ Goes(h, "writing", load[h].models)
    /\ UNCHANGED <<cache, hostStage, provider, status, aborted, commands, waiting>>

WriteEnds(h) ==
    /\ In(h, "writing")
    /\ temporary' = [temporary EXCEPT ![TemporaryOf(h)] = load[h].models]
    /\ Goes(h, "renaming", load[h].models)
    /\ UNCHANGED <<cache, hostStage, provider, status, aborted, commands, waiting>>

Renames(h) ==
    /\ In(h, "renaming")
    /\ temporary[TemporaryOf(h)] # Missing
    /\ cache' = temporary[TemporaryOf(h)]
    /\ temporary' = [temporary EXCEPT ![TemporaryOf(h)] = Missing]
    /\ Loaded(h, "live", load[h].models)

\* A file operation fails: the temporary file is removed and the live catalog used
\* with a warning.
CacheWriteFails(h) ==
    /\ In(h, "opening") \/ In(h, "writing") \/ In(h, "renaming")
    /\ temporary' = [temporary EXCEPT ![TemporaryOf(h)] = Missing]
    /\ Loaded(h, "live", load[h].models)
    /\ UNCHANGED cache

ReadsCache(h) ==
    /\ In(h, "reading")
    /\ \/ Readable /\ Loaded(h, "cache", cache)
       \/ ~Readable /\ Loaded(h, "empty", Empty)
    /\ UNCHANGED files

-----------------------------------------------------------------------------
\* session_shutdown: dispose() aborts a refresh that still fetches.
Dispose(h) ==
    /\ hostStage[h] \notin {"off", "dead"} /\ ~aborted[h]
    /\ aborted' = [aborted EXCEPT ![h] = TRUE]
    /\ UNCHANGED <<files, hostStage, load, provider, status, commands, waiting>>

\* The process ends or dies: what it was writing stays as it is.
Dies(h) ==
    /\ hostStage[h] \notin {"off", "dead"}
    /\ hostStage' = [hostStage EXCEPT ![h] = "dead"]
    /\ waiting' = [waiting EXCEPT ![h] = 0]
    /\ UNCHANGED <<files, load, provider, status, aborted, commands>>

FetchSettles(h) == FetchSucceeds(h) \/ FetchFails(h) \/ FetchAborted(h)
FileSteps(h) ==
    \/ WriteStarts(h) \/ WriteEnds(h) \/ Renames(h) \/ CacheWriteFails(h)
    \/ ReadsCache(h) \/ CacheLoaded(h)

CatalogNext ==
    \E h \in Hosts :
        \/ Start(h) \/ CacheLoaded(h) \/ Command(h)
        \/ FetchSucceeds(h) \/ FetchFails(h) \/ FetchAborted(h)
        \/ WriteStarts(h) \/ WriteEnds(h) \/ Renames(h) \/ CacheWriteFails(h)
        \/ ReadsCache(h) \/ Dispose(h) \/ Dies(h)

CatalogSpec == CatalogInit /\ [][CatalogNext]_catalogVars

\* A fetch is bounded by its timeout, and file operations end.
CatalogFairness ==
    \A h \in Hosts : WF_catalogVars(FetchSettles(h)) /\ WF_catalogVars(FileSteps(h))

-----------------------------------------------------------------------------
\* Type correctness; the status describes the catalog that is registered and says whether
\* a refresh runs, and only a host whose refresh runs has somebody waiting for it.
CatalogTypeOK ==
    /\ cache \in {Missing, Invalid, Partial} \cup Catalogs
    /\ temporary \in [Hosts -> {Missing, Partial} \cup Catalogs]
    /\ provider \in [Hosts -> {Missing, Empty} \cup Catalogs]
    /\ \A h \in Hosts :
          /\ hostStage[h] \in {"off", "starting", "awaiting", "ready", "dead"}
          /\ load[h].phase \in {"none", "fetching", "opening", "writing", "renaming", "reading"}
          /\ status[h].models = IF provider[h] = Missing THEN Empty ELSE provider[h]
          /\ status[h].refreshing <=> (load[h].phase # "none")
          /\ (status[h].source = "empty") <=> (status[h].models = Empty)
          /\ (waiting[h] > 0 \/ hostStage[h] = "awaiting") => load[h].phase # "none"
    /\ aborted \in [Hosts -> BOOLEAN]
    /\ \A h \in Hosts : commands[h] \in 0..MaxCommands[h] /\ waiting[h] \in 0..commands[h]

\* A host that has models keeps them: a refresh replaces them only by a catalog that
\* the API just answered with, never by nothing and never by an older cached one that
\* another process left.
CatalogNeverRegresses ==
    [][\A h \in Hosts :
          provider[h] \in Catalogs /\ provider'[h] # provider[h] =>
              /\ provider'[h] = load[h].models /\ provider'[h] \in Catalogs
              /\ status'[h].source = "live"]_catalogVars

\* The cache file is never a part of a catalog, whoever writes and dies when.
CacheFileWhole == cache # Partial

\* A refresh ends, so that the host's start and the commands that wait for it do, and
\* the status stops saying that it is in progress.
RefreshSettles ==
    \A h \in Hosts : status[h].refreshing ~>
        \/ hostStage[h] = "dead"
        \/ ~status[h].refreshing /\ waiting[h] = 0 /\ hostStage[h] # "awaiting"
=============================================================================
