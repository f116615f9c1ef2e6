---------------------------- MODULE ConfigCache ----------------------------
(***************************************************************************)
(* ConfigManager.GetConfigObject and InvalidateConfigObject                *)
(* (src/config/config.go) for one object name: the ObjectCache, the        *)
(* InFlight map of sync.Once retrievers, and goroutines calling them       *)
(* concurrently.  Entries of different names never interact, so one name   *)
(* is enough.  The object's content at the remote location is a version    *)
(* number that an operator may advance; ReadConfigObject returns the       *)
(* version current when it reads, or fails.                                *)
(***************************************************************************)
EXTENDS Integers, FiniteSets

CONSTANTS
    Callers,        \* goroutines calling GetConfigObject
    MaxCalls,       \* calls each of them makes
    MaxVersion,     \* last version the remote object reaches
    MaxOnces,       \* sync.Once objects that can be created
    Invalidations,  \* InvalidateConfigObject calls
    ReadOutcomes    \* subset of {"ok", "fail"}: what ReadConfigObject may do

NoObject == -1      \* ObjectCache holds nothing for the name
NoOnce == 0         \* InFlight holds nothing for the name
Err == -2           \* "could not get configuration object"
EmptyObject == -3   \* the zero ConfigObject ReadConfigObject returns with an error
Onces == 1..MaxOnces
Versions == 0..MaxVersion

VARIABLES
    cache,          \* ObjectCache[objectName]: a version or NoObject
    inFlight,       \* InFlight[objectName]: a once or NoOnce
    once,           \* state of each sync.Once: fresh, running or done
    outcome,        \* what the retriever of each once read: none, ok, fail
    nOnces,         \* onces created so far
    pc,             \* where each caller is in GetConfigObject
    mine,           \* the once each caller obtained from LoadOrStore
    got,            \* the version the running retriever read
    result,         \* what the caller's last call returned: a version or Err
    calls,          \* calls made by each caller
    remote,         \* version at the remote location
    invalidatedAt,  \* remote version when InvalidateConfigObject last ran
    nInvalidations

vars == <<cache, inFlight, once, outcome, nOnces, pc, mine, got, result,
          calls, remote, invalidatedAt, nInvalidations>>

PCs == {"idle", "loadOrStore", "do", "read", "store", "release", "reload"}

Init ==
    /\ cache = NoObject
    /\ inFlight = NoOnce
    /\ once = [o \in Onces |-> "fresh"]
    /\ outcome = [o \in Onces |-> "none"]
    /\ nOnces = 0
    /\ pc = [g \in Callers |-> "idle"]
    /\ mine = [g \in Callers |-> NoOnce]
    /\ got = [g \in Callers |-> NoObject]
    /\ result = [g \in Callers |-> NoObject]
    /\ calls = [g \in Callers |-> 0]
    /\ remote = 0
    /\ invalidatedAt = 0
    /\ nInvalidations = 0

-----------------------------------------------------------------------------
(* GetConfigObject, one step per access to shared state                   *)

\* Try cache: a hit returns the cached object at once.
Load(g) ==
    /\ pc[g] = "idle" /\ calls[g] < MaxCalls
    /\ calls' = [calls EXCEPT ![g] = @ + 1]
    /\ IF cache # NoObject
       THEN /\ result' = [result EXCEPT ![g] = cache]
            /\ UNCHANGED pc
       ELSE /\ pc' = [pc EXCEPT ![g] = "loadOrStore"]
            /\ UNCHANGED result
    /\ UNCHANGED <<cache, inFlight, once, outcome, nOnces, mine, got, remote,
                   invalidatedAt, nInvalidations>>

\* Mutant: Store instead of LoadOrStore, every caller keeps its own once.
StoreOwnOnce(g) ==
    /\ nOnces < MaxOnces
    /\ nOnces' = nOnces + 1
    /\ inFlight' = nOnces + 1
    /\ mine' = [mine EXCEPT ![g] = nOnces + 1]

\* InFlight.LoadOrStore(objectName, &once): the caller's fresh once is
\* stored unless another caller's once is already there.
LoadOrStore(g) ==
    IF inFlight = NoOnce
    THEN /\ nOnces < MaxOnces
         /\ nOnces' = nOnces + 1
         /\ inFlight' = nOnces + 1
         /\ mine' = [mine EXCEPT ![g] = nOnces + 1]
    ELSE /\ mine' = [mine EXCEPT ![g] = inFlight]
         /\ UNCHANGED <<nOnces, inFlight>>

GetOnce(g) ==
    /\ pc[g] = "loadOrStore"
    /\ LoadOrStore(g)
    /\ pc' = [pc EXCEPT ![g] = "do"]
    /\ UNCHANGED <<cache, once, outcome, got, result, calls, remote,
                   invalidatedAt, nInvalidations>>

\* Mutant: Do returns without waiting for a retriever that is running.
DoNoWait(g) ==
    /\ pc[g] = "do"
    /\ IF once[mine[g]] = "fresh"
       THEN /\ once' = [once EXCEPT ![mine[g]] = "running"]
            /\ pc' = [pc EXCEPT ![g] = "read"]
       ELSE /\ pc' = [pc EXCEPT ![g] = "reload"]
            /\ UNCHANGED once
    /\ UNCHANGED <<cache, inFlight, outcome, nOnces, mine, got, result, calls,
                   remote, invalidatedAt, nInvalidations>>

\* once.Do(retriever): the first caller runs the retriever, a caller of a
\* running once blocks, a caller of a done once returns at once.
Do(g) ==
    /\ pc[g] = "do"
    /\ once[mine[g]] # "running"
    /\ IF once[mine[g]] = "fresh"
       THEN /\ once' = [once EXCEPT ![mine[g]] = "running"]
            /\ pc' = [pc EXCEPT ![g] = "read"]
       ELSE /\ pc' = [pc EXCEPT ![g] = "reload"]
            /\ UNCHANGED once
    /\ UNCHANGED <<cache, inFlight, outcome, nOnces, mine, got, result, calls,
                   remote, invalidatedAt, nInvalidations>>

\* retriever: ReadConfigObject reads the remote object or fails.
Read(g) ==
    /\ pc[g] = "read"
    /\ \E r \in ReadOutcomes :
         /\ outcome' = [outcome EXCEPT ![mine[g]] = r]
         /\ got' = [got EXCEPT ![g] = IF r = "ok" THEN remote ELSE EmptyObject]
    /\ pc' = [pc EXCEPT ![g] = "store"]
    /\ UNCHANGED <<cache, inFlight, once, nOnces, mine, result, calls, remote,
                   invalidatedAt, nInvalidations>>

\* Mutant: the object is stored whatever the error.
StoreReadIgnoringError(g) == cache' = got[g]

\* retriever: ObjectCache.Store only when ReadConfigObject returned no error.
StoreRead(g) == cache' = IF outcome[mine[g]] = "ok" THEN got[g] ELSE cache

Store(g) ==
    /\ pc[g] = "store"
    /\ StoreRead(g)
    /\ pc' = [pc EXCEPT ![g] = "release"]
    /\ UNCHANGED <<inFlight, once, outcome, nOnces, mine, got, result, calls,
                   remote, invalidatedAt, nInvalidations>>

\* retriever: InFlight.Delete; then Do returns and the once is done.
Release(g) ==
    /\ pc[g] = "release"
    /\ inFlight' = NoOnce
    /\ once' = [once EXCEPT ![mine[g]] = "done"]
    /\ pc' = [pc EXCEPT ![g] = "reload"]
    /\ UNCHANGED <<cache, outcome, nOnces, mine, got, result, calls, remote,
                   invalidatedAt, nInvalidations>>

\* Try again: the object, or "could not get configuration object".
Reload(g) ==
    /\ pc[g] = "reload"
    /\ result' = [result EXCEPT ![g] = IF cache # NoObject THEN cache ELSE Err]
    /\ pc' = [pc EXCEPT ![g] = "idle"]
    /\ UNCHANGED <<cache, inFlight, once, outcome, nOnces, mine, got, calls,
                   remote, invalidatedAt, nInvalidations>>

\* InvalidateConfigObject: ObjectCache.Delete.
InvalidateConfigObject ==
    /\ nInvalidations < Invalidations
    /\ nInvalidations' = nInvalidations + 1
    /\ cache' = NoObject
    /\ invalidatedAt' = remote
    /\ UNCHANGED <<inFlight, once, outcome, nOnces, pc, mine, got, result,
                   calls, remote>>

\* The object is changed at its file or URL.
UpdateRemote ==
    /\ remote < MaxVersion
    /\ remote' = remote + 1
    /\ UNCHANGED <<cache, inFlight, once, outcome, nOnces, pc, mine, got,
                   result, calls, invalidatedAt, nInvalidations>>

Next ==
    \/ \E g \in Callers :
         Load(g) \/ GetOnce(g) \/ Do(g) \/ Read(g) \/ Store(g) \/ Release(g)
           \/ Reload(g)
    \/ InvalidateConfigObject
    \/ UpdateRemote

Spec == Init /\ [][Next]_vars

-----------------------------------------------------------------------------
(* Properties                                                             *)

TypeOK ==
    /\ cache \in Versions \cup {NoObject}
    /\ inFlight \in Onces \cup {NoOnce}
    /\ once \in [Onces -> {"fresh", "running", "done"}]
    /\ outcome \in [Onces -> {"none", "ok", "fail"}]
    /\ pc \in [Callers -> PCs]
    /\ mine \in [Callers -> Onces \cup {NoOnce}]
    /\ got \in [Callers -> Versions \cup {NoObject, EmptyObject}]
    /\ result \in [Callers -> Versions \cup {NoObject, Err}]

\* The single-flight of GetConfigObject: however the callers interleave
\* with each other and with InvalidateConfigObject, at most one of them is
\* running ReadConfigObject for the name at any time.
AtMostOneRetrieval ==
    Cardinality({g \in Callers : pc[g] \in {"read", "store"}}) <= 1

\* GetConfigObject returns "could not get configuration object" only when
\* some ReadConfigObject failed or InvalidateConfigObject emptied the cache:
\* a caller that got another caller's once from InFlight, or one that came
\* after the retriever deleted it, waits in once.Do and then finds the
\* object the retriever stored.
ErrOnlyAfterFailure ==
    \A g \in Callers :
        result[g] = Err =>
            (\E o \in Onces : outcome[o] = "fail") \/ nInvalidations > 0

\* After InvalidateConfigObject the cache never again holds content older
\* than the remote object had when it was invalidated.
CacheFreshAfterInvalidate ==
    cache # NoObject => cache >= invalidatedAt

=============================================================================
