-------------------------- MODULE CoreRuntimeProofs --------------------------
(***************************************************************************)
(* Theorems about CoreRuntime, for any number of runtimes.                 *)
(*                                                                         *)
(* A runtime whose application lives owns the process, so there is one.    *)
(* That the owner gives the process up only without a living application   *)
(* rests on close: what was begun before it is waited for, and nothing is  *)
(* begun behind it.                                                        *)
(*                                                                         *)
(* The creations form one chain, and what is over of it is a prefix: the   *)
(* one next in it alone has the environment.                               *)
(***************************************************************************)
EXTENDS CoreRuntime, TLAPS

-----------------------------------------------------------------------------
(* Type correctness.                                                       *)

\* Two fields of a creation, or of a closing, may be written together.
LEMMA CreationUpdate ==
    ASSUME creations \in [Runtimes -> Creation], NEW c \in Runtimes,
           NEW after \in Runtimes \cup {Nobody},
           NEW saved \in Runtimes \cup {Outside},
           NEW pc \in {"waiting", "creating", "created", "failed"}
    PROVE  /\ [creations EXCEPT ![c].pc = pc] \in [Runtimes -> Creation]
           /\ [creations EXCEPT ![c].pc = pc, ![c].after = after]
                 \in [Runtimes -> Creation]
           /\ [creations EXCEPT ![c].pc = pc, ![c].saved = saved]
                 \in [Runtimes -> Creation]
<1>1. /\ [creations[c] EXCEPT !.pc = pc] \in Creation
      /\ [creations[c] EXCEPT !.pc = pc, !.after = after] \in Creation
      /\ [creations[c] EXCEPT !.pc = pc, !.saved = saved] \in Creation
    BY DEF Creation
<1>2. /\ [creations EXCEPT ![c].pc = pc]
            = [creations EXCEPT ![c] = [creations[c] EXCEPT !.pc = pc]]
      /\ [creations EXCEPT ![c].pc = pc, ![c].after = after]
            = [creations EXCEPT ![c] =
                  [creations[c] EXCEPT !.pc = pc, !.after = after]]
      /\ [creations EXCEPT ![c].pc = pc, ![c].saved = saved]
            = [creations EXCEPT ![c] =
                  [creations[c] EXCEPT !.pc = pc, !.saved = saved]]
    OBVIOUS
<1>. QED
    BY <1>1, <1>2

LEMMA ClosingUpdate ==
    ASSUME closes \in [Runtimes -> Closing], NEW c \in Runtimes,
           NEW pc \in {"transitions", "quiescing", "app", "server", "done"},
           NEW left \in SUBSET {"preparation", "initialization", "listening"},
           NEW failed \in BOOLEAN
    PROVE  /\ [closes EXCEPT ![c].pc = pc, ![c].left = left]
                 \in [Runtimes -> Closing]
           /\ [closes EXCEPT ![c].pc = pc, ![c].failed = failed]
                 \in [Runtimes -> Closing]
<1>1. /\ closes[c] \in Closing
      /\ closes[c].left \in
            SUBSET {"preparation", "initialization", "listening"}
      /\ closes[c].failed \in BOOLEAN
    BY DEF Closing
<1>2. [closes[c] EXCEPT !.pc = pc, !.left = left] \in Closing
    BY <1>1 DEF Closing
<1>3. [closes[c] EXCEPT !.pc = pc, !.failed = failed] \in Closing
    BY <1>1 DEF Closing
<1>4. [closes EXCEPT ![c].pc = pc, ![c].left = left]
        = [closes EXCEPT ![c] =
              [closes[c] EXCEPT !.pc = pc, !.left = left]]
    OBVIOUS
<1>5. [closes EXCEPT ![c].pc = pc, ![c].failed = failed]
        = [closes EXCEPT ![c] =
              [closes[c] EXCEPT !.pc = pc, !.failed = failed]]
    OBVIOUS
<1>. QED
    BY <1>2, <1>3, <1>4, <1>5

LEMMA PromisesType ==
    ASSUME NEW c \in Runtimes
    PROVE  Promises(c) \in
              SUBSET {"preparation", "initialization", "listening"}
BY DEF Promises

LEMMA TypeStep ==
    ASSUME TypeOK, [Next]_vars
    PROVE  TypeOK'
<1>. USE NullsAssumption DEF TypeOK, creation, starting
<1>1. CASE UNCHANGED vars
    BY <1>1 DEF vars
<1>2. ASSUME NEW c \in Runtimes, Call(c)
      PROVE  TypeOK'
    <2>1. CASE AskToCreate(c)
        <3>1. creations' \in [Runtimes -> Creation]
            BY <2>1, CreationUpdate DEF AskToCreate
        <3>. QED
            BY <2>1, <3>1 DEF AskToCreate
    <2>2. CASE PrepareDatabase(c)
        <3>1. preparations' \in [Runtimes -> Preparation]
            BY <2>2 DEF PrepareDatabase, Prepared, Preparation
        <3>. QED
            BY <2>2, <3>1 DEF PrepareDatabase, Prepared
    <2>3. CASE AbortPreparation(c)
        <3>1. preparations' \in [Runtimes -> Preparation]
            BY <2>3 DEF AbortPreparation, Preparation
        <3>. QED
            BY <2>3, <3>1 DEF AbortPreparation
    <2>4. CASE Initialize(c)
        <3>1. preparations' \in [Runtimes -> Preparation]
            BY <2>4 DEF Initialize, Initialized, Prepared, Preparation
        <3>. QED
            BY <2>4, <3>1 DEF Initialize, Initialized, Prepared, Initialization
    <2>5. CASE Listen(c)
        <3>1. preparations' \in [Runtimes -> Preparation]
            BY <2>5 DEF Listen, Initialized, Prepared, Preparation
        <3>. QED
            BY <2>5, <3>1
            DEF Listen, Initialized, Prepared, Initialization, Listening
    <2>6. CASE Close(c)
        <3>1. closes' \in [Runtimes -> Closing]
            BY <2>6, ClosingUpdate, PromisesType DEF Close
        <3>2. preparations' \in [Runtimes -> Preparation]
            <4>. DEFINE flag == "preparation" \in Promises(c)
            <4>1. flag \in BOOLEAN
                OBVIOUS
            <4>2. preparations' = [preparations EXCEPT ![c].aborted = flag]
                BY <2>6 DEF Close
            <4>. HIDE DEF flag
            <4>. QED
                BY <4>1, <4>2 DEF Preparation
        <3>. QED
            BY <2>6, <3>1, <3>2 DEF Close, Promises
    <2>. QED
        BY <1>2, <2>1, <2>2, <2>3, <2>4, <2>5, <2>6 DEF Call
<1>3. ASSUME NEW c \in Runtimes, Prepare(c)
      PROVE  TypeOK'
    <2>1. CASE MigrationsApplied(c)
        <3>1. preparations' \in [Runtimes -> Preparation]
            BY <2>1 DEF MigrationsApplied, Preparation
        <3>. QED
            BY <2>1, <3>1 DEF MigrationsApplied
    <2>2. CASE PreparationFails(c)
        <3>1. preparations' \in [Runtimes -> Preparation]
            BY <2>2 DEF PreparationFails, Preparation
        <3>. QED
            BY <2>2, <3>1 DEF PreparationFails, Initialization
    <2>. QED
        BY <1>3, <2>1, <2>2 DEF Prepare
<1>4. ASSUME NEW c \in Runtimes, Continue(c)
      PROVE  TypeOK'
    <2>1. CASE BeginCreation(c)
        <3>1. creations' \in [Runtimes -> Creation]
            BY <2>1, CreationUpdate DEF BeginCreation
        <3>. QED
            BY <2>1, <3>1 DEF BeginCreation
    <2>2. CASE Bootstrap(c)
        BY <2>2 DEF Bootstrap, Initialization
    <2>3. CASE Booted(c)
        BY <2>3 DEF Booted, Initialization, Listening
    <2>4. CASE BootFails(c)
        BY <2>4 DEF BootFails, Initialization, Listening
    <2>5. CASE Bind(c)
        BY <2>5 DEF Bind, Initialization, Listening
    <2>6. CASE TransitionsSettled(c)
        <3>1. closes' \in [Runtimes -> Closing]
            BY <2>6, ClosingUpdate DEF TransitionsSettled
        <3>. QED
            BY <2>6, <3>1 DEF TransitionsSettled
    <2>7. CASE ServerClosed(c)
        <3>1. closes' \in [Runtimes -> Closing]
            BY <2>7, SMTT(30) DEF ServerClosed, Closing
        <3>. QED
            BY <2>7, <3>1 DEF ServerClosed
    <2>8. ASSUME NEW well \in BOOLEAN, Created(c, well)
          PROVE  TypeOK'
        <3>1. creations' \in [Runtimes -> Creation]
            BY <2>8 DEF Created, Creation
        <3>. QED
            BY <2>8, <3>1 DEF Created, Creation
    <2>9. ASSUME NEW well \in BOOLEAN, Bound(c, well)
          PROVE  TypeOK'
        BY <2>9 DEF Bound, Listening
    <2>10. ASSUME NEW well \in BOOLEAN, Quiesced(c, well)
           PROVE  TypeOK'
        <3>1. closes' \in [Runtimes -> Closing]
            BY <2>10, ClosingUpdate DEF Quiesced
        <3>. QED
            BY <2>10, <3>1 DEF Quiesced
    <2>11. ASSUME NEW well \in BOOLEAN, AppClosed(c, well)
           PROVE  TypeOK'
        <3>1. closes' \in [Runtimes -> Closing]
            <4>1. closes[c].failed \in BOOLEAN
                BY DEF Closing
            <4>. QED
                BY <2>11, <4>1, ClosingUpdate DEF AppClosed
        <3>. QED
            BY <2>11, <3>1 DEF AppClosed
    <2>. QED
        BY <1>4, <2>1, <2>2, <2>3, <2>4, <2>5, <2>6, <2>7, <2>8, <2>9,
           <2>10, <2>11 DEF Continue
<1>. QED
    BY <1>1, <1>2, <1>3, <1>4 DEF Next

LEMMA TypeInit ==
    ASSUME Init
    PROVE  TypeOK
BY NullsAssumption
   DEF Init, TypeOK, Creation, Preparation, Initialization, Listening, Closing

\* The state of every runtime and of the process is well-typed: in particular
\* an application is started only on a prepared database, and a server is
\* opened only for a started application.
THEOREM TypeCorrect == Spec => []TypeOK
<1>1. Init => TypeOK
    BY TypeInit
<1>2. TypeOK /\ [Next]_vars => TypeOK'
    BY TypeStep
<1>. QED
    BY <1>1, <1>2, PTL DEF Spec
-----------------------------------------------------------------------------
(* What close waits for: no promise is made behind it.                     *)

\* Behind close a promise of the runtime may settle; none is made.
LEMMA PromisesShrink ==
    ASSUME TypeOK, [Next]_vars, NEW d \in Runtimes, closes[d].pc # "none"
    PROVE  Promises(d)' \subseteq Promises(d)
<1>. USE DEF TypeOK, Promises, Preparation, creation, starting
<1>1. CASE UNCHANGED vars
    BY <1>1 DEF vars
<1>2. ASSUME NEW c \in Runtimes, Call(c)
      PROVE  Promises(d)' \subseteq Promises(d)
    <2>1. CASE AskToCreate(c)
        BY <2>1 DEF AskToCreate
    <2>2. CASE PrepareDatabase(c)
        <3>1. d # c
            BY <2>2 DEF PrepareDatabase, Open
        <3>. QED
            BY <2>2, <3>1 DEF PrepareDatabase, Prepared
    <2>3. CASE AbortPreparation(c)
        BY <2>3 DEF AbortPreparation
    <2>4. CASE Initialize(c)
        <3>1. d # c
            BY <2>4 DEF Initialize, Open
        <3>. QED
            BY <2>4, <3>1 DEF Initialize, Prepared, Initialized
    <2>5. CASE Listen(c)
        <3>1. d # c
            BY <2>5 DEF Listen, Open
        <3>. QED
            BY <2>5, <3>1 DEF Listen, Prepared, Initialized
    <2>6. CASE Close(c)
        <3>1. d # c
            BY <2>6 DEF Close, Open
        <3>. QED
            BY <2>6, <3>1 DEF Close
    <2>. QED
        BY <1>2, <2>1, <2>2, <2>3, <2>4, <2>5, <2>6 DEF Call
<1>3. ASSUME NEW c \in Runtimes, Prepare(c)
      PROVE  Promises(d)' \subseteq Promises(d)
    <2>1. CASE MigrationsApplied(c)
        BY <2>1 DEF MigrationsApplied
    <2>2. CASE PreparationFails(c)
        BY <2>2 DEF PreparationFails
    <2>. QED
        BY <1>3, <2>1, <2>2 DEF Prepare
<1>4. ASSUME NEW c \in Runtimes, Continue(c)
      PROVE  Promises(d)' \subseteq Promises(d)
    <2>1. CASE BeginCreation(c)
        BY <2>1 DEF BeginCreation
    <2>2. CASE Bootstrap(c)
        BY <2>2 DEF Bootstrap
    <2>3. CASE Booted(c)
        BY <2>3 DEF Booted
    <2>4. CASE BootFails(c)
        BY <2>4 DEF BootFails
    <2>5. CASE Bind(c)
        BY <2>5 DEF Bind
    <2>6. CASE TransitionsSettled(c)
        BY <2>6 DEF TransitionsSettled
    <2>7. CASE ServerClosed(c)
        BY <2>7 DEF ServerClosed
    <2>8. ASSUME NEW well \in BOOLEAN, Created(c, well)
         PROVE  Promises(d)' \subseteq Promises(d)
        BY <2>8 DEF Created
    <2>9. ASSUME NEW well \in BOOLEAN, Bound(c, well)
         PROVE  Promises(d)' \subseteq Promises(d)
        BY <2>9 DEF Bound
    <2>10. ASSUME NEW well \in BOOLEAN, Quiesced(c, well)
         PROVE  Promises(d)' \subseteq Promises(d)
        BY <2>10 DEF Quiesced
    <2>11. ASSUME NEW well \in BOOLEAN, AppClosed(c, well)
         PROVE  Promises(d)' \subseteq Promises(d)
        BY <2>11 DEF AppClosed
    <2>. QED
        BY <1>4, <2>1, <2>2, <2>3, <2>4, <2>5, <2>6, <2>7, <2>8, <2>9,
           <2>10, <2>11 DEF Continue
<1>. QED
    BY <1>1, <1>2, <1>3, <1>4 DEF Next

Behind == {"quiescing", "app", "server", "done"}

\* The ways in which a closing goes on.
ClosingGoesOn(d) ==
    \/ closes'[d] = closes[d]
    \/ Close(d) \/ TransitionsSettled(d)
    \/ closes[d].pc \in Behind /\ closes'[d].pc \in Behind

LEMMA ClosingStep ==
    ASSUME TypeOK, [Next]_vars, NEW d \in Runtimes
    PROVE  ClosingGoesOn(d)
<1>. USE DEF TypeOK, Closing, ClosingGoesOn, Behind, creation, starting
<1>1. CASE UNCHANGED vars
    BY <1>1 DEF vars
<1>2. ASSUME NEW c \in Runtimes, Call(c)
      PROVE  ClosingGoesOn(d)
    <2>1. CASE AskToCreate(c)
        BY <2>1 DEF AskToCreate
    <2>2. CASE PrepareDatabase(c)
        BY <2>2 DEF PrepareDatabase
    <2>3. CASE AbortPreparation(c)
        BY <2>3 DEF AbortPreparation
    <2>4. CASE Initialize(c)
        BY <2>4 DEF Initialize
    <2>5. CASE Listen(c)
        BY <2>5 DEF Listen
    <2>6. CASE Close(c)
        BY <2>6 DEF Close
    <2>. QED
        BY <1>2, <2>1, <2>2, <2>3, <2>4, <2>5, <2>6 DEF Call
<1>3. ASSUME NEW c \in Runtimes, Prepare(c)
      PROVE  ClosingGoesOn(d)
    <2>1. CASE MigrationsApplied(c)
        BY <2>1 DEF MigrationsApplied
    <2>2. CASE PreparationFails(c)
        BY <2>2 DEF PreparationFails
    <2>. QED
        BY <1>3, <2>1, <2>2 DEF Prepare
<1>4. ASSUME NEW c \in Runtimes, Continue(c)
      PROVE  ClosingGoesOn(d)
    <2>1. CASE BeginCreation(c)
        BY <2>1 DEF BeginCreation
    <2>2. CASE Bootstrap(c)
        BY <2>2 DEF Bootstrap
    <2>3. CASE Booted(c)
        BY <2>3 DEF Booted
    <2>4. CASE BootFails(c)
        BY <2>4 DEF BootFails
    <2>5. CASE Bind(c)
        BY <2>5 DEF Bind
    <2>6. CASE TransitionsSettled(c)
        BY <2>6 DEF TransitionsSettled
    <2>7. CASE ServerClosed(c)
        BY <2>7 DEF ServerClosed
    <2>8. ASSUME NEW well \in BOOLEAN, Created(c, well)
         PROVE  ClosingGoesOn(d)
        BY <2>8 DEF Created
    <2>9. ASSUME NEW well \in BOOLEAN, Bound(c, well)
         PROVE  ClosingGoesOn(d)
        BY <2>9 DEF Bound
    <2>10. ASSUME NEW well \in BOOLEAN, Quiesced(c, well)
         PROVE  ClosingGoesOn(d)
        BY <2>10 DEF Quiesced
    <2>11. ASSUME NEW well \in BOOLEAN, AppClosed(c, well)
         PROVE  ClosingGoesOn(d)
        BY <2>11 DEF AppClosed
    <2>. QED
        BY <1>4, <2>1, <2>2, <2>3, <2>4, <2>5, <2>6, <2>7, <2>8, <2>9,
           <2>10, <2>11 DEF Continue
<1>. QED
    BY <1>1, <1>2, <1>3, <1>4 DEF Next

\* Close knows the promises that it waits for; when it goes on there are none.
Waited(d) ==
    /\ closes[d].pc = "transitions" => Promises(d) \subseteq closes[d].left
    /\ closes[d].pc \in Behind => Promises(d) = {}

LEMMA WaitedStep ==
    ASSUME TypeOK, [Next]_vars, NEW d \in Runtimes, Waited(d)
    PROVE  Waited(d)'
<1>1. CASE closes'[d] = closes[d]
    <2>1. CASE closes[d].pc = "none"
        BY <1>1, <2>1 DEF Waited, Behind
    <2>2. CASE closes[d].pc # "none"
        BY <1>1, <2>2, PromisesShrink DEF Waited
    <2>. QED
        BY <2>1, <2>2
<1>2. CASE Close(d)
    <2>1. Promises(d)' = Promises(d)
        BY <1>2 DEF Close, Promises, TypeOK, Preparation
    <2>2. closes'[d].pc = "transitions" /\ closes'[d].left = Promises(d)
        BY <1>2 DEF Close, TypeOK, Closing
    <2>. QED
        BY <2>1, <2>2 DEF Waited, Behind
<1>3. CASE TransitionsSettled(d)
    <2>1. Promises(d) = {} /\ closes[d].pc # "none"
        BY <1>3 DEF TransitionsSettled, Waited
    <2>2. closes'[d].pc = "quiescing"
        BY <1>3 DEF TransitionsSettled, TypeOK, Closing
    <2>. QED
        BY <2>1, <2>2, PromisesShrink DEF Waited, Behind
<1>4. CASE closes[d].pc \in Behind /\ closes'[d].pc \in Behind
    <2>1. Promises(d) = {} /\ closes[d].pc # "none"
        BY <1>4 DEF Waited, Behind
    <2>. QED
        BY <1>4, <2>1, PromisesShrink DEF Waited, Behind
<1>. QED
    BY <1>1, <1>2, <1>3, <1>4, ClosingStep DEF ClosingGoesOn

-----------------------------------------------------------------------------
(* One runtime per process.                                                *)

\* What a closing without failure has behind it.
ShutDown(d) ==
    /\ closes[d].pc \in {"server", "done"} /\ ~closes[d].failed
          => apps[d] # "up"
    /\ closes[d].pc = "done"
          => ~servers[d] /\ (~closes[d].failed => owner # d)

\* A runtime that lives owns the process.
Owns(d) == Live(d) => owner = d

Inv == \A d \in Runtimes : Owns(d) /\ Waited(d) /\ ShutDown(d)

LEMMA OwnsStep ==
    ASSUME TypeOK, Inv, [Next]_vars, NEW d \in Runtimes
    PROVE  Owns(d)'
<1>. USE DEF TypeOK, Owns, Live, Closing, creation, starting
<1>0. Owns(d) /\ Waited(d) /\ ShutDown(d)
    BY DEF Inv
<1>1. CASE UNCHANGED vars
    BY <1>0, <1>1 DEF vars
<1>2. ASSUME NEW c \in Runtimes, Call(c)
      PROVE  Owns(d)'
    <2>1. CASE AskToCreate(c)
        BY <1>0, <2>1 DEF AskToCreate
    <2>2. CASE PrepareDatabase(c)
        BY <1>0, <2>2 DEF PrepareDatabase
    <2>3. CASE AbortPreparation(c)
        BY <1>0, <2>3 DEF AbortPreparation
    <2>4. CASE Initialize(c)
        BY <1>0, <2>4 DEF Initialize, Initialized, Initialization
    <2>5. CASE Listen(c)
        BY <1>0, <2>5 DEF Listen, Initialized, Initialization
    <2>6. CASE Close(c)
        BY <1>0, <2>6 DEF Close
    <2>. QED
        BY <1>2, <2>1, <2>2, <2>3, <2>4, <2>5, <2>6 DEF Call
<1>3. ASSUME NEW c \in Runtimes, Prepare(c)
      PROVE  Owns(d)'
    <2>1. CASE MigrationsApplied(c)
        BY <1>0, <2>1 DEF MigrationsApplied
    <2>2. CASE PreparationFails(c)
        BY <1>0, <2>2 DEF PreparationFails
    <2>. QED
        BY <1>3, <2>1, <2>2 DEF Prepare
<1>4. ASSUME NEW c \in Runtimes, Continue(c)
      PROVE  Owns(d)'
    <2>1. CASE BeginCreation(c)
        BY <1>0, <2>1 DEF BeginCreation
    <2>2. CASE Bootstrap(c)
        <3>1. CASE Open(c) /\ owner \in {c, Nobody}
            BY <2>2, <3>1, NullsAssumption DEF Bootstrap, Inv
        <3>2. CASE ~(Open(c) /\ owner \in {c, Nobody})
            BY <1>0, <2>2, <3>2 DEF Bootstrap, Initialization
        <3>. QED
            BY <3>1, <3>2
    <2>3. CASE Booted(c)
        BY <1>0, <2>3 DEF Booted
    <2>4. CASE BootFails(c)
        BY <1>0, <2>4 DEF BootFails
    <2>5. CASE Bind(c)
        BY <1>0, <2>5 DEF Bind
    <2>6. CASE TransitionsSettled(c)
        BY <1>0, <2>6 DEF TransitionsSettled
    <2>7. CASE ServerClosed(c)
        <3>1. CASE d = c /\ ~closes[c].failed
            <4>1. inits[d] # "booting"
                BY <1>0, <2>7, <3>1 DEF ServerClosed, Waited, Behind, Promises
            <4>2. apps[d] # "up"
                BY <1>0, <2>7, <3>1 DEF ServerClosed, ShutDown
            <4>. QED
                BY <2>7, <4>1, <4>2 DEF ServerClosed
        <3>2. CASE ~(d = c /\ ~closes[c].failed)
            BY <1>0, <2>7, <3>2, NullsAssumption DEF ServerClosed
        <3>. QED
            BY <3>1, <3>2
    <2>8. ASSUME NEW well \in BOOLEAN, Created(c, well)
         PROVE  Owns(d)'
        BY <1>0, <2>8 DEF Created
    <2>9. ASSUME NEW well \in BOOLEAN, Bound(c, well)
         PROVE  Owns(d)'
        BY <1>0, <2>9 DEF Bound
    <2>10. ASSUME NEW well \in BOOLEAN, Quiesced(c, well)
         PROVE  Owns(d)'
        BY <1>0, <2>10 DEF Quiesced
    <2>11. ASSUME NEW well \in BOOLEAN, AppClosed(c, well)
         PROVE  Owns(d)'
        BY <1>0, <2>11 DEF AppClosed
    <2>. QED
        BY <1>4, <2>1, <2>2, <2>3, <2>4, <2>5, <2>6, <2>7, <2>8, <2>9,
           <2>10, <2>11 DEF Continue
<1>. QED
    BY <1>1, <1>2, <1>3, <1>4 DEF Next

LEMMA ShutDownStep ==
    ASSUME TypeOK, Inv, [Next]_vars, NEW d \in Runtimes
    PROVE  ShutDown(d)'
<1>. USE DEF TypeOK, ShutDown, Closing, creation, starting
<1>0. Waited(d) /\ ShutDown(d)
    BY DEF Inv
<1>1. CASE UNCHANGED vars
    BY <1>0, <1>1 DEF vars
<1>2. ASSUME NEW c \in Runtimes, Call(c)
      PROVE  ShutDown(d)'
    <2>1. CASE AskToCreate(c)
        BY <1>0, <2>1 DEF AskToCreate
    <2>2. CASE PrepareDatabase(c)
        BY <1>0, <2>2 DEF PrepareDatabase
    <2>3. CASE AbortPreparation(c)
        BY <1>0, <2>3 DEF AbortPreparation
    <2>4. CASE Initialize(c)
        BY <1>0, <2>4 DEF Initialize
    <2>5. CASE Listen(c)
        BY <1>0, <2>5 DEF Listen
    <2>6. CASE Close(c)
        BY <1>0, <2>6 DEF Close
    <2>. QED
        BY <1>2, <2>1, <2>2, <2>3, <2>4, <2>5, <2>6 DEF Call
<1>3. ASSUME NEW c \in Runtimes, Prepare(c)
      PROVE  ShutDown(d)'
    <2>1. CASE MigrationsApplied(c)
        BY <1>0, <2>1 DEF MigrationsApplied
    <2>2. CASE PreparationFails(c)
        BY <1>0, <2>2 DEF PreparationFails
    <2>. QED
        BY <1>3, <2>1, <2>2 DEF Prepare
<1>4. ASSUME NEW c \in Runtimes, Continue(c)
      PROVE  ShutDown(d)'
    <2>1. CASE BeginCreation(c)
        BY <1>0, <2>1 DEF BeginCreation
    <2>2. CASE Bootstrap(c)
        BY <1>0, <2>2, NullsAssumption DEF Bootstrap, Open
    <2>3. CASE Booted(c)
        BY <1>0, <2>3 DEF Booted, Waited, Behind, Promises
    <2>4. CASE BootFails(c)
        BY <1>0, <2>4, NullsAssumption DEF BootFails
    <2>5. CASE Bind(c)
        BY <1>0, <2>5 DEF Bind
    <2>6. CASE TransitionsSettled(c)
        BY <1>0, <2>6 DEF TransitionsSettled
    <2>7. CASE ServerClosed(c)
        BY <1>0, <2>7, NullsAssumption DEF ServerClosed
    <2>8. ASSUME NEW well \in BOOLEAN, Created(c, well)
         PROVE  ShutDown(d)'
        BY <1>0, <2>8 DEF Created
    <2>9. ASSUME NEW well \in BOOLEAN, Bound(c, well)
         PROVE  ShutDown(d)'
        BY <1>0, <2>9 DEF Bound, Waited, Behind, Promises
    <2>10. ASSUME NEW well \in BOOLEAN, Quiesced(c, well)
         PROVE  ShutDown(d)'
        BY <1>0, <2>10 DEF Quiesced
    <2>11. ASSUME NEW well \in BOOLEAN, AppClosed(c, well)
         PROVE  ShutDown(d)'
        BY <1>0, <2>11 DEF AppClosed
    <2>. QED
        BY <1>4, <2>1, <2>2, <2>3, <2>4, <2>5, <2>6, <2>7, <2>8, <2>9,
           <2>10, <2>11 DEF Continue
<1>. QED
    BY <1>1, <1>2, <1>3, <1>4 DEF Next

LEMMA InvStep ==
    ASSUME TypeOK, Inv, [Next]_vars
    PROVE  Inv'
<1>1. ASSUME NEW d \in Runtimes
      PROVE  (Owns(d) /\ Waited(d) /\ ShutDown(d))'
    BY <1>1, OwnsStep, WaitedStep, ShutDownStep DEF Inv
<1>. QED
    BY <1>1 DEF Inv

LEMMA InvInit ==
    ASSUME Init
    PROVE  Inv
BY DEF Init, Inv, Owns, Live, Waited, ShutDown, Behind

LEMMA InvCorrect == Spec => [](TypeOK /\ Inv)
<1>1. Init => TypeOK /\ Inv
    BY TypeInit, InvInit
<1>2. TypeOK /\ Inv /\ [Next]_vars => (TypeOK /\ Inv)'
    BY TypeStep, InvStep
<1>. QED
    BY <1>1, <1>2, PTL DEF Spec

\* However many runtimes a process creates, initializes and closes, in any
\* order and with any failures, one at most has an application that starts,
\* runs, or could not be shut down.
THEOREM OneAtATime == Spec => []OneRuntimePerProcess
<1>1. Inv => OneRuntimePerProcess
    BY DEF Inv, Owns, OneRuntimePerProcess
<1>. QED
    BY <1>1, InvCorrect, PTL

\* When close has settled no call on the runtime is on its way or begins, its
\* server is closed, and after a shutdown without failure its application has
\* ended and the process is free of it.
THEOREM ClosedForGood == Spec => []NothingOpenAfterClose
<1>1. Inv => NothingOpenAfterClose
    BY DEF Inv, Waited, ShutDown, Behind, NothingOpenAfterClose
<1>. QED
    BY <1>1, InvCorrect, PTL

-----------------------------------------------------------------------------
(* Creations take turns with the environment.                              *)

Asked(c) == creations[c].pc # "none"
Over(c)  == creations[c].pc \in {"created", "failed"}

\* The creations form one chain, each behind the one that asked before it.
OneChain ==
    /\ previous # Nobody => Asked(previous)
    /\ \A c \in Runtimes : Asked(c) =>
          /\ previous # Nobody
          /\ creations[c].after # previous
          /\ creations[c].after # Nobody => Asked(creations[c].after)
          /\ \A b \in Runtimes \ {c} :
                Asked(b) => creations[b].after # creations[c].after

\* A creation begins when the one before is over.
AfterTheOneBefore ==
    \A c \in Runtimes :
        /\ creations[c].pc = "creating" \/ Over(c)
        /\ creations[c].after # Nobody
        => Over(creations[c].after)

\* x ends the part of the chain that is over: nothing behind it is.
Front(x) ==
    /\ x = Nobody \/ (x \in Runtimes /\ Over(x))
    /\ \A c \in Runtimes : Over(c) => creations[c].after # x

OneFront == \A x, y \in Runtimes \cup {Nobody} : Front(x) /\ Front(y) => x = y

\* The environment is the process's own, or of the one being created, which
\* will restore the process's own.
EnvironmentIsLent ==
    /\ CreatedWithItsDatabase
    /\ \A c \in Runtimes : creations[c].pc = "creating" =>
                               creations[c].saved = Outside

CreationInv == OneChain /\ AfterTheOneBefore /\ OneFront /\ EnvironmentIsLent

\* Whoever is behind nothing unfinished is alone with that.
LEMMA OneIsNext ==
    ASSUME TypeOK, OneChain, OneFront,
           NEW b \in Runtimes, NEW c \in Runtimes,
           Asked(b), ~Over(b), Asked(c), ~Over(c),
           creations[b].after # Nobody => Over(creations[b].after),
           creations[c].after # Nobody => Over(creations[c].after)
    PROVE  b = c
<1>1. /\ creations[b].after \in Runtimes \cup {Nobody}
      /\ creations[c].after \in Runtimes \cup {Nobody}
    BY DEF TypeOK, Creation
<1>2. Front(creations[b].after) /\ Front(creations[c].after)
    <2>1. \A d \in Runtimes : Over(d) =>
              d # b /\ d # c /\ Asked(d)
        BY DEF Over, Asked
    <2>. QED
        BY <1>1, <2>1 DEF Front, OneChain
<1>3. creations[b].after = creations[c].after
    BY <1>1, <1>2 DEF OneFront
<1>. QED
    BY <1>3 DEF OneChain

LEMMA AskStep ==
    ASSUME TypeOK, CreationInv, NEW c \in Runtimes, AskToCreate(c)
    PROVE  CreationInv'
<1>. DEFINE p == previous
<1>1. /\ creations'[c].pc = "waiting" /\ creations'[c].after = p
      /\ \A b \in Runtimes \ {c} : creations'[b] = creations[b]
      /\ previous' = c /\ environment' = environment
      /\ ~Asked(c)
    BY DEF AskToCreate, TypeOK, Creation, Asked
<1>2. \A b \in Runtimes : /\ Asked(b)' <=> Asked(b) \/ b = c
                          /\ Over(b)' <=> Over(b)
                          /\ creations'[b].pc = "creating"
                                <=> creations[b].pc = "creating"
                          /\ Over(b) \/ creations[b].pc = "creating"
                                => creations'[b] = creations[b]
    BY <1>1 DEF Asked, Over
<1>3. OneChain'
    <2>1. p # Nobody => p \in Runtimes /\ Asked(p)
        BY DEF CreationInv, OneChain, TypeOK
    <2>2. \A b \in Runtimes : Asked(b) =>
              /\ creations'[b].after = creations[b].after
              /\ creations[b].after # p
              /\ creations[b].after # c
        BY <1>1, NullsAssumption DEF CreationInv, OneChain
    <2>3. c # p
        BY <1>1, <2>1, NullsAssumption
    <2>. QED
        BY <1>1, <1>2, <2>1, <2>2, <2>3, NullsAssumption
        DEF CreationInv, OneChain, TypeOK, Creation
<1>4. AfterTheOneBefore'
    BY <1>2 DEF CreationInv, AfterTheOneBefore, TypeOK, Creation
<1>5. \A x : Front(x)' <=> Front(x)
    BY <1>2 DEF Front
<1>6. OneFront'
    BY <1>5 DEF CreationInv, OneFront
<1>7. EnvironmentIsLent'
    BY <1>1, <1>2 DEF CreationInv, EnvironmentIsLent, CreatedWithItsDatabase
<1>. QED
    BY <1>3, <1>4, <1>6, <1>7 DEF CreationInv

LEMMA BeginStep ==
    ASSUME TypeOK, CreationInv, NEW c \in Runtimes, BeginCreation(c)
    PROVE  CreationInv'
<1>1. /\ creations'[c].pc = "creating"
      /\ creations'[c].after = creations[c].after
      /\ creations'[c].saved = environment
      /\ \A b \in Runtimes \ {c} : creations'[b] = creations[b]
      /\ previous' = previous /\ environment' = c
      /\ creations[c].pc = "waiting"
      /\ creations[c].after # Nobody => Over(creations[c].after)
    <2>. DEFINE own == environment
    <2>1. creations' = [creations EXCEPT ![c].pc = "creating",
                                         ![c].saved = own]
        BY DEF BeginCreation
    <2>. HIDE DEF own
    <2>2. /\ creations'[c].pc = "creating"
          /\ creations'[c].after = creations[c].after
          /\ creations'[c].saved = own
          /\ \A b \in Runtimes \ {c} : creations'[b] = creations[b]
        BY <2>1 DEF TypeOK, Creation
    <2>. QED
        BY <2>2 DEF BeginCreation, Over, own
<1>2. \A b \in Runtimes : /\ creations'[b].after = creations[b].after
                          /\ Asked(b)' <=> Asked(b)
                          /\ Over(b)' <=> Over(b)
    BY <1>1 DEF Asked, Over
<1>3. OneChain'
    BY <1>1, <1>2 DEF CreationInv, OneChain, TypeOK, Creation
<1>4. AfterTheOneBefore'
    BY <1>1, <1>2 DEF CreationInv, AfterTheOneBefore, TypeOK, Creation
<1>5. OneFront'
    BY <1>2 DEF CreationInv, OneFront, Front
<1>6. \A b \in Runtimes : creations[b].pc # "creating"
    <2>. SUFFICES ASSUME NEW b \in Runtimes, creations[b].pc = "creating"
                  PROVE  FALSE
        OBVIOUS
    <2>1. Asked(b) /\ ~Over(b) /\ Asked(c) /\ ~Over(c)
        BY <1>1 DEF Asked, Over
    <2>2. creations[b].after # Nobody => Over(creations[b].after)
        BY DEF CreationInv, AfterTheOneBefore
    <2>3. b = c
        BY <1>1, <2>1, <2>2, OneIsNext DEF CreationInv
    <2>. QED
        BY <1>1, <2>3
<1>7. EnvironmentIsLent'
    BY <1>1, <1>6 DEF CreationInv, EnvironmentIsLent, CreatedWithItsDatabase
<1>. QED
    BY <1>3, <1>4, <1>5, <1>7 DEF CreationInv

LEMMA CreatedStep ==
    ASSUME TypeOK, CreationInv, NEW c \in Runtimes, NEW well \in BOOLEAN,
           Created(c, well)
    PROVE  CreationInv'
<1>. DEFINE p  == creations[c].after
            pc == IF well THEN "created" ELSE "failed"
<1>1. /\ Over(c)' /\ creations'[c].after = p
      /\ creations'[c].pc # "creating"
      /\ \A b \in Runtimes \ {c} : creations'[b] = creations[b]
    <2>1. creations' = [creations EXCEPT ![c].pc = pc]
        BY DEF Created
    <2>2. pc \in {"created", "failed"}
        OBVIOUS
    <2>. HIDE DEF pc
    <2>. QED
        BY <2>1, <2>2 DEF TypeOK, Creation, Over
<1>2. /\ creations[c].pc = "creating"
      /\ previous' = previous /\ environment' = creations[c].saved
    BY DEF Created
<1>3. \A b \in Runtimes : /\ creations'[b].after = creations[b].after
                          /\ Asked(b)' <=> Asked(b)
                          /\ Over(b)' <=> Over(b) \/ b = c
    BY <1>1, <1>2 DEF Asked, Over
<1>4. OneChain'
    BY <1>2, <1>3 DEF CreationInv, OneChain, TypeOK, Creation
<1>5. AfterTheOneBefore'
    BY <1>1, <1>2, <1>3 DEF CreationInv, AfterTheOneBefore, TypeOK, Creation
<1>6. p \in Runtimes \cup {Nobody} /\ Front(p)
    <2>1. p \in Runtimes \cup {Nobody}
        BY DEF TypeOK, Creation
    <2>2. p # Nobody => Over(p)
        BY <1>2 DEF CreationInv, AfterTheOneBefore
    <2>3. \A d \in Runtimes : Over(d) => d # c /\ Asked(d)
        BY <1>2 DEF Over, Asked
    <2>4. Asked(c)
        BY <1>2 DEF Asked
    <2>. QED
        BY <2>1, <2>2, <2>3, <2>4 DEF Front, CreationInv, OneChain
<1>7. ASSUME NEW x \in Runtimes \cup {Nobody}, Front(x)'
      PROVE  x = c
    <2>1. x # p
        BY <1>1, <1>7 DEF Front
    <2>2. x # c => Front(x)
        BY <1>3, <1>7 DEF Front
    <2>. QED
        BY <1>6, <2>1, <2>2 DEF CreationInv, OneFront
<1>8. OneFront'
    BY <1>7 DEF OneFront
<1>9. \A b \in Runtimes \ {c} : creations[b].pc # "creating"
    <2>. SUFFICES ASSUME NEW b \in Runtimes, creations[b].pc = "creating"
                  PROVE  b = c
        OBVIOUS
    <2>. QED
        BY <1>2, OneIsNext
        DEF Asked, Over, CreationInv, AfterTheOneBefore
<1>10. EnvironmentIsLent'
    BY <1>1, <1>2, <1>9
    DEF CreationInv, EnvironmentIsLent, CreatedWithItsDatabase
<1>. QED
    BY <1>4, <1>5, <1>8, <1>10 DEF CreationInv

\* Nothing else moves a creation, the chain or the environment.
LEMMA CreationStep ==
    ASSUME TypeOK, CreationInv, [Next]_vars
    PROVE  CreationInv'
<1>1. CASE UNCHANGED creation
    <2>1. CreatedWithItsDatabase'
        BY <1>1 DEF creation, CreationInv, EnvironmentIsLent,
                    CreatedWithItsDatabase
    <2>. QED
        BY <1>1, <2>1 DEF creation, CreationInv, OneChain, AfterTheOneBefore,
                    OneFront, Front, EnvironmentIsLent, Asked, Over
<1>. QED
    BY <1>1, AskStep, BeginStep, CreatedStep
    DEF Next, Call, Prepare, Continue, vars, PrepareDatabase, AbortPreparation,
        Initialize, Listen, Close, MigrationsApplied, PreparationFails,
        Bootstrap, Booted, BootFails, Bind, TransitionsSettled, ServerClosed,
        Bound, Quiesced, AppClosed

\* A runtime is created with its own DATABASE_URL, and the process has its own
\* again afterwards, however many creations ask at once and however they end.
THEOREM CreatedInTurn == Spec => []CreatedWithItsDatabase
<1>1. Init => CreationInv
    BY NullsAssumption
    DEF Init, CreationInv, OneChain, AfterTheOneBefore, OneFront, Front,
        EnvironmentIsLent, CreatedWithItsDatabase, Asked, Over
<1>2. TypeOK /\ CreationInv /\ [Next]_vars => CreationInv'
    BY CreationStep
<1>3. CreationInv => CreatedWithItsDatabase
    BY DEF CreationInv, EnvironmentIsLent
<1>. QED
    BY <1>1, <1>2, <1>3, TypeCorrect, PTL DEF Spec
=============================================================================
