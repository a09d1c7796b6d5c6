----------------------------- MODULE CoreRuntime -----------------------------
(***************************************************************************)
(* Core runtimes of one process: createRevoCoreRuntime, prepareDatabase,   *)
(* initialize, listen and close, called by the embedding process in any    *)
(* order and while earlier calls are on their way.                         *)
(*                                                                         *)
(* A call that repeats an earlier one gets the promise of the earlier one, *)
(* so there is one preparation, initialization, listening and closing per  *)
(* runtime at a time.  What runs between two awaits is one action.         *)
(* Calls made from inside the callback onStage, before prepareDatabase has *)
(* stored its promise, are left out.                                       *)
(*                                                                         *)
(* External: Nest (app.init, app.listen, app.close), the migrations, and   *)
(* RevoRunService.quiesce, which is the subject of RunHost: it succeeds or *)
(* fails, and app.close, which calls it again by a shutdown hook, cannot   *)
(* succeed if it has failed.                                               *)
(***************************************************************************)
EXTENDS Naturals, FiniteSets

CONSTANTS
    Runtimes,   \* runtimes that the process may create
    Nobody,     \* undefined, for a runtime
    Outside     \* the DATABASE_URL of the process itself

ASSUME NullsAssumption == Nobody \notin Runtimes /\ Outside \notin Runtimes

VARIABLES
    creations,     \* createWithEngineDatabaseUrl, per runtime
    previous,      \* previousCreation: the last one to have asked
    environment,   \* DATABASE_URL: whose it is
    preparations,  \* preparationPromise and its controller
    inits,         \* initializationPromise
    listens,       \* listenPromise
    closes,        \* closePromise
    apps,          \* external: the Nest applications
    servers,       \* whether the HTTP server is open
    owner          \* initializedRuntime, of the process

creation == <<creations, previous, environment>>
starting == <<preparations, inits, listens>>
vars == <<creation, starting, closes, apps, servers, owner>>

\* after: whose creation is waited for; saved: the value to be restored.
Creation == [pc : {"none", "waiting", "creating", "created", "failed"},
             after : Runtimes \cup {Nobody}, saved : Runtimes \cup {Outside}]

Preparation == [pc : {"none", "application", "dbos", "prepared"},
                aborted : BOOLEAN]

\* A failed initialization is remembered, unlike a failed listening.
Initialization == {"none", "preparing", "booting", "initialized", "failed"}
Listening      == {"none", "initializing", "binding", "listening"}

\* left: the promises there were when close was called.
Closing == [pc : {"none", "transitions", "quiescing", "app", "server", "done"},
            left : SUBSET {"preparation", "initialization", "listening"},
            failed : BOOLEAN]

TypeOK ==
    /\ creations \in [Runtimes -> Creation]
    /\ previous \in Runtimes \cup {Nobody}
    /\ environment \in Runtimes \cup {Outside}
    /\ preparations \in [Runtimes -> Preparation]
    /\ inits \in [Runtimes -> Initialization]
    /\ listens \in [Runtimes -> Listening]
    /\ closes \in [Runtimes -> Closing]
    /\ apps \in [Runtimes -> {"none", "up", "broken", "closed"}]
    /\ servers \in [Runtimes -> BOOLEAN]
    /\ owner \in Runtimes \cup {Nobody}
    /\ \A c \in Runtimes :
          /\ inits[c] = "booting" => preparations[c].pc = "prepared"
          /\ listens[c] \in {"binding", "listening"} => inits[c] = "initialized"

Init ==
    /\ creations = [c \in Runtimes |->
                      [pc |-> "none", after |-> Nobody, saved |-> Outside]]
    /\ previous = Nobody
    /\ environment = Outside
    /\ preparations = [c \in Runtimes |-> [pc |-> "none", aborted |-> FALSE]]
    /\ inits = [c \in Runtimes |-> "none"]
    /\ listens = [c \in Runtimes |-> "none"]
    /\ closes = [c \in Runtimes |->
                   [pc |-> "none", left |-> {}, failed |-> FALSE]]
    /\ apps = [c \in Runtimes |-> "none"]
    /\ servers = [c \in Runtimes |-> FALSE]
    /\ owner = Nobody

\* assertOpen, of a runtime that there is.
Open(c) == creations[c].pc = "created" /\ closes[c].pc = "none"

-----------------------------------------------------------------------------
(* createWithEngineDatabaseUrl: creations take turns with the environment. *)

AskToCreate(c) ==
    /\ creations[c].pc = "none"
    /\ creations' = [creations EXCEPT ![c].pc = "waiting", ![c].after = previous]
    /\ previous' = c
    /\ UNCHANGED <<environment, starting, closes, apps, servers, owner>>

\* Mistake: a creation does not wait for the one before.
BeginCreationAtOnce(c) ==
    /\ creations[c].pc = "waiting"
    /\ creations' = [creations EXCEPT ![c].pc = "creating",
                                      ![c].saved = environment]
    /\ environment' = c
    /\ UNCHANGED <<previous, starting, closes, apps, servers, owner>>

BeginCreation(c) ==
    /\ creations[c].pc = "waiting"
    /\ creations[c].after # Nobody
          => creations[creations[c].after].pc \in {"created", "failed"}
    /\ creations' = [creations EXCEPT ![c].pc = "creating",
                                      ![c].saved = environment]
    /\ environment' = c
    /\ UNCHANGED <<previous, starting, closes, apps, servers, owner>>

\* create resolves or rejects; the environment is put back and the next one
\* goes on.
Created(c, well) ==
    /\ creations[c].pc = "creating"
    /\ creations' = [creations EXCEPT ![c].pc =
                       IF well THEN "created" ELSE "failed"]
    /\ environment' = creations[c].saved
    /\ UNCHANGED <<previous, starting, closes, apps, servers, owner>>

-----------------------------------------------------------------------------
(* prepareDatabase.                                                        *)

\* A preparation begins unless there is one, with a controller of its own.
Prepared(c) ==
    IF preparations[c].pc # "none" THEN preparations
    ELSE [preparations EXCEPT ![c] = [pc |-> "application", aborted |-> FALSE]]

PrepareDatabase(c) ==
    /\ Open(c) /\ preparations[c].pc = "none"
    /\ preparations' = Prepared(c)
    /\ UNCHANGED <<creation, inits, listens, closes, apps, servers, owner>>

\* The caller's signal; here any preparation may have one, not only one that
\* the caller began himself.
AbortPreparation(c) ==
    /\ preparations[c].pc \in {"application", "dbos"}
    /\ ~preparations[c].aborted
    /\ preparations' = [preparations EXCEPT ![c].aborted = TRUE]
    /\ UNCHANGED <<creation, inits, listens, closes, apps, servers, owner>>

MigrationsApplied(c) ==
    /\ preparations[c].pc \in {"application", "dbos"}
    /\ preparations' = [preparations EXCEPT ![c].pc =
                          IF @ = "application" THEN "dbos" ELSE "prepared"]
    /\ UNCHANGED <<creation, inits, listens, closes, apps, servers, owner>>

\* It can be tried again; an initialization that waits for it has failed.
PreparationFails(c) ==
    /\ preparations[c].pc \in {"application", "dbos"}
    /\ preparations' = [preparations EXCEPT ![c] =
                          [pc |-> "none", aborted |-> FALSE]]
    /\ inits' = [inits EXCEPT ![c] = IF @ = "preparing" THEN "failed" ELSE @]
    /\ UNCHANGED <<creation, listens, closes, apps, servers, owner>>

-----------------------------------------------------------------------------
(* initialize and listen.                                                  *)

\* initialize called, by the process or by listen.
Initialized(c) == IF inits[c] # "none" THEN inits
                  ELSE [inits EXCEPT ![c] = "preparing"]

Initialize(c) ==
    /\ Open(c) /\ inits[c] = "none"
    /\ inits' = Initialized(c)
    /\ preparations' = Prepared(c)
    /\ UNCHANGED <<creation, listens, closes, apps, servers, owner>>

\* initializeOnce behind prepareDatabase: closed meanwhile, or another runtime
\* has the process, or app.init.
Bootstrap(c) ==
    /\ inits[c] = "preparing" /\ preparations[c].pc = "prepared"
    /\ IF Open(c) /\ owner \in {c, Nobody}
       THEN /\ inits' = [inits EXCEPT ![c] = "booting"]
            /\ owner' = c
       ELSE /\ inits' = [inits EXCEPT ![c] = "failed"]
            /\ UNCHANGED owner
    /\ UNCHANGED <<creation, preparations, listens, closes, apps, servers>>

Booted(c) ==
    /\ inits[c] = "booting"
    /\ inits' = [inits EXCEPT ![c] = "initialized"]
    /\ apps' = [apps EXCEPT ![c] = "up"]
    /\ UNCHANGED <<creation, preparations, listens, closes, servers, owner>>

BootFails(c) ==
    /\ inits[c] = "booting"
    /\ inits' = [inits EXCEPT ![c] = "failed"]
    /\ apps' = [apps EXCEPT ![c] = "broken"]
    /\ owner' = IF owner = c THEN Nobody ELSE owner
    /\ UNCHANGED <<creation, preparations, listens, closes, servers>>

Listen(c) ==
    /\ Open(c) /\ listens[c] = "none"
    /\ listens' = [listens EXCEPT ![c] = "initializing"]
    /\ inits' = Initialized(c)
    /\ preparations' = IF inits[c] = "none" THEN Prepared(c) ELSE preparations
    /\ UNCHANGED <<creation, closes, apps, servers, owner>>

\* Mistake: initialize is called, but not awaited.
BindAtOnce(c) ==
    /\ listens[c] = "initializing"
    /\ listens' = [listens EXCEPT ![c] = IF Open(c) THEN "binding" ELSE "none"]
    /\ UNCHANGED <<creation, preparations, inits, closes, apps, servers, owner>>

\* listenOnce behind initialize.
Bind(c) ==
    /\ listens[c] = "initializing" /\ inits[c] \in {"initialized", "failed"}
    /\ listens' = [listens EXCEPT ![c] =
                     IF inits[c] = "initialized" /\ Open(c) THEN "binding"
                     ELSE "none"]
    /\ UNCHANGED <<creation, preparations, inits, closes, apps, servers, owner>>

Bound(c, ready) ==
    /\ listens[c] = "binding"
    /\ listens' = [listens EXCEPT ![c] = IF ready THEN "listening" ELSE "none"]
    /\ servers' = [servers EXCEPT ![c] = ready]
    /\ UNCHANGED <<creation, preparations, inits, closes, apps, owner>>

-----------------------------------------------------------------------------
(* close.                                                                  *)

Promises(c) ==
    {p \in {"preparation", "initialization", "listening"} :
        \/ p = "preparation" /\ preparations[c].pc \in {"application", "dbos"}
        \/ p = "initialization" /\ inits[c] \in {"preparing", "booting"}
        \/ p = "listening" /\ listens[c] \in {"initializing", "binding"}}

\* Mistake: the preparation on its way is waited for, but not aborted.
CloseWithoutAbort(c) ==
    /\ Open(c)
    /\ closes' = [closes EXCEPT ![c].pc = "transitions", ![c].left = Promises(c)]
    /\ UNCHANGED <<creation, starting, apps, servers, owner>>

\* Mistake: close waits for nothing that has begun.
CloseAtOnce(c) ==
    /\ Open(c)
    /\ closes' = [closes EXCEPT ![c].pc = "transitions"]
    /\ preparations' = [preparations EXCEPT ![c].aborted =
                          "preparation" \in Promises(c)]
    /\ UNCHANGED <<creation, inits, listens, apps, servers, owner>>

Close(c) ==
    /\ Open(c)
    /\ closes' = [closes EXCEPT ![c].pc = "transitions", ![c].left = Promises(c)]
    /\ preparations' = [preparations EXCEPT ![c].aborted =
                          "preparation" \in Promises(c)]
    /\ UNCHANGED <<creation, inits, listens, apps, servers, owner>>

\* They have settled; the server accepts no more, the run host is asked to stop.
TransitionsSettled(c) ==
    /\ closes[c].pc = "transitions" /\ closes[c].left \cap Promises(c) = {}
    /\ closes' = [closes EXCEPT ![c].pc = "quiescing", ![c].left = {}]
    /\ UNCHANGED <<creation, starting, apps, servers, owner>>

Quiesced(c, stopped) ==
    /\ closes[c].pc = "quiescing"
    /\ closes' = [closes EXCEPT ![c].pc = "app", ![c].failed = ~stopped]
    /\ UNCHANGED <<creation, starting, apps, servers, owner>>

AppClosed(c, closed) ==
    /\ closes[c].pc = "app" /\ (closed => ~closes[c].failed)
    /\ closes' = [closes EXCEPT ![c].pc = "server", ![c].failed = @ \/ ~closed]
    /\ apps' = [apps EXCEPT ![c] = IF closed THEN "closed" ELSE @]
    /\ UNCHANGED <<creation, starting, servers, owner>>

\* Mistake: the process is free for the next runtime whatever has failed.
ServerClosedFreeing(c) ==
    /\ closes[c].pc = "server"
    /\ closes' = [closes EXCEPT ![c].pc = "done"]
    /\ servers' = [servers EXCEPT ![c] = FALSE]
    /\ owner' = IF owner = c THEN Nobody ELSE owner
    /\ UNCHANGED <<creation, starting, apps>>

\* The server has terminated; only a shutdown without failure frees the process.
ServerClosed(c) ==
    /\ closes[c].pc = "server"
    /\ closes' = [closes EXCEPT ![c].pc = "done"]
    /\ servers' = [servers EXCEPT ![c] = FALSE]
    /\ owner' = IF ~closes[c].failed /\ owner = c THEN Nobody ELSE owner
    /\ UNCHANGED <<creation, starting, apps>>

-----------------------------------------------------------------------------

Call(c) ==
    \/ AskToCreate(c) \/ PrepareDatabase(c) \/ AbortPreparation(c)
    \/ Initialize(c) \/ Listen(c) \/ Close(c)

Prepare(c) == MigrationsApplied(c) \/ PreparationFails(c)

\* What goes on by itself.
Continue(c) ==
    \/ BeginCreation(c)
    \/ Bootstrap(c) \/ Booted(c) \/ BootFails(c)
    \/ Bind(c) \/ TransitionsSettled(c) \/ ServerClosed(c)
    \/ \E well \in BOOLEAN :
          \/ Created(c, well) \/ Bound(c, well)
          \/ Quiesced(c, well) \/ AppClosed(c, well)

Next == \E c \in Runtimes : Call(c) \/ Prepare(c) \/ Continue(c)

\* Migrations may hang, on a lock or a connection; an abort ends them.
Spec ==
    /\ Init /\ [][Next]_vars
    /\ \A c \in Runtimes : /\ WF_vars(Continue(c))
                           /\ WF_vars(preparations[c].aborted /\ Prepare(c))

-----------------------------------------------------------------------------
(* Properties.                                                             *)

\* Never two runtimes of a process have an application that is starting, runs,
\* or could not be shut down, whatever order they are created, initialized and
\* closed in.
Live(c) == inits[c] = "booting" \/ apps[c] = "up"

OneRuntimePerProcess ==
    \A b, c \in Runtimes : Live(b) /\ Live(c) => b = c

\* Once close has settled nothing of the runtime goes on or begins: no call is
\* on its way, no server is open, and if nothing failed no application runs.
NothingOpenAfterClose ==
    \A c \in Runtimes : closes[c].pc = "done" =>
        /\ Promises(c) = {} /\ ~servers[c]
        /\ ~closes[c].failed => apps[c] # "up" /\ owner # c

\* A runtime is created with its own DATABASE_URL, and the process has its own
\* again when no runtime is being created.
CreatedWithItsDatabase ==
    /\ \A c \in Runtimes : creations[c].pc = "creating" => environment = c
    /\ (\A c \in Runtimes : creations[c].pc # "creating")
          => environment = Outside

\* close settles, though what it waits for waits for migrations that hang.
CloseSettles ==
    \A c \in Runtimes : closes[c].pc # "none" ~> closes[c].pc = "done"
=============================================================================
