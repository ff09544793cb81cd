------------------------------ MODULE Controller ------------------------------
(***************************************************************************)
(* Life cycle of the handlers of a Controller (controller.go).              *)
(*                                                                          *)
(* Start launches a supervisor goroutine (executeHandler) per handler.  The *)
(* supervisor sets the handler up, subscribes it and spawns a loop          *)
(* goroutine (runHandler), then waits for the user's context or for the     *)
(* run's own context.  When a run ends with an error a new supervisor, and  *)
(* so a new run of the same handler, starts five seconds later.  Start      *)
(* returns when the WaitGroup of the supervisors reaches zero, after it     *)
(* shut the bus down.  Nobody waits for the loop goroutines.                *)
(*                                                                          *)
(* A run <<h, n>> is the n-th execution of handler h.                       *)
(***************************************************************************)
EXTENDS Bus, Integers, FiniteSets

CONSTANTS Handlers,       \* the handlers given to Start
          Subscribers,    \* those with a non-empty Topics()
          MaxRuns,        \* bound: executions of a handler
          MaxMsgs         \* bound: messages published on the bus

ASSUME ControllerAssumption ==
    /\ IsFiniteSet(Handlers)
    /\ Subscribers \subseteq Handlers
    /\ MaxRuns \in Nat \ {0}
    /\ MaxMsgs \in Nat

VARIABLES
    ctx,        \* the user's context: "live" or "done"
    bus,        \* "open", or "shut" once Shutdown ran
    starter,    \* goroutine in Start: "launching", "waiting", "shutdown", "returned"
    toStart,    \* handlers Start has not launched yet
    wg,         \* Controller.wg
    sup,        \* per run, where its supervisor is in executeHandler
    loop,       \* per run, where its loop goroutine is in runHandler
    cancelled,  \* per run, cancel() of its subContext was called
    subs,       \* runs whose channel is registered in the bus
    queue,      \* per run, content of its channel
    published,  \* number of messages published so far; messages are 1..published
    handled     \* history, per handler: messages given to HandleMessage

vars == <<ctx, bus, starter, toStart, wg, sup, loop, cancelled, subs, queue,
          published, handled>>

Runs == Handlers \X (1..MaxRuns)
FirstRun(h) == <<h, 1>>
NextRun(r) == <<r[1], r[2] + 1>>
IsLastRun(r) == r[2] = MaxRuns

SupStates == {"idle", "setup", "sub", "select", "parked", "sleep", "done", "over"}
LoopStates == {"idle", "start", "select", "busy", "blocked", "teardown", "over"}

TypeOK ==
    /\ ctx \in {"live", "done"}
    /\ bus \in {"open", "shut"}
    /\ starter \in {"launching", "waiting", "shutdown", "returned"}
    /\ toStart \subseteq Handlers
    /\ wg \in Nat
    /\ sup \in [Runs -> SupStates]
    /\ loop \in [Runs -> LoopStates]
    /\ cancelled \in [Runs -> BOOLEAN]
    /\ subs \subseteq Runs
    /\ queue \in [Runs -> Seq(1..MaxMsgs)]
    /\ published \in 0..MaxMsgs
    /\ handled \in [Handlers -> Seq(1..MaxMsgs)]

Init ==
    /\ ctx = "live"
    /\ bus = "open"
    /\ starter = "launching"
    /\ toStart = Handlers
    /\ wg = 0
    /\ sup = [r \in Runs |-> "idle"]
    /\ loop = [r \in Runs |-> "idle"]
    /\ cancelled = [r \in Runs |-> FALSE]
    /\ subs = {}
    /\ queue = [r \in Runs |-> <<>>]
    /\ published = 0
    /\ handled = [h \in Handlers |-> <<>>]

(* The run's subContext is a child of the user's context. *)
SubContextDone(r) == ctx = "done" \/ cancelled[r]

-------------------------------------------------------------------------------
(* Start, and the user that cancels the context. *)

LaunchHandler(h) ==
    /\ starter = "launching"
    /\ h \in toStart
    /\ toStart' = toStart \ {h}
    /\ wg' = wg + 1
    /\ sup' = [sup EXCEPT ![FirstRun(h)] = "setup"]
    /\ UNCHANGED <<ctx, bus, starter, loop, cancelled, subs, queue, published, handled>>

AllLaunched ==
    /\ starter = "launching"
    /\ toStart = {}
    /\ starter' = "waiting"
    /\ UNCHANGED <<ctx, bus, toStart, wg, sup, loop, cancelled, subs, queue, published, handled>>

WaitReturns ==
    /\ starter = "waiting"
    /\ wg = 0
    /\ starter' = "shutdown"
    /\ UNCHANGED <<ctx, bus, toStart, wg, sup, loop, cancelled, subs, queue, published, handled>>

Shutdown ==
    /\ starter = "shutdown"
    /\ starter' = "returned"
    /\ bus' = "shut"
    /\ UNCHANGED <<ctx, toStart, wg, sup, loop, cancelled, subs, queue, published, handled>>

(* Closing the parent's Done channel comes before the children's: it wakes *)
(* a supervisor parked in its select through the ctx.Done() case.          *)
Cancel ==
    /\ ctx = "live"
    /\ ctx' = "done"
    /\ sup' = [r \in Runs |-> IF sup[r] = "parked" THEN "done" ELSE sup[r]]
    /\ UNCHANGED <<bus, starter, toStart, wg, loop, cancelled, subs, queue, published, handled>>

-------------------------------------------------------------------------------
(* The supervisor: executeHandler and the head of runHandler. *)

SetupSucceeds(r) ==
    /\ sup[r] = "setup"
    /\ sup' = [sup EXCEPT ![r] = "sub"]
    /\ UNCHANGED <<ctx, bus, starter, toStart, wg, loop, cancelled, subs, queue, published, handled>>

SetupFails(r) ==
    /\ sup[r] = "setup"
    /\ ~IsLastRun(r)
    /\ cancelled' = [cancelled EXCEPT ![r] = TRUE]
    /\ sup' = [sup EXCEPT ![r] = "select"]
    /\ UNCHANGED <<ctx, bus, starter, toStart, wg, loop, subs, queue, published, handled>>

(* Sub waits for the bus; without topics the channel is never registered. *)
Subscribe(r) ==
    /\ sup[r] = "sub"
    /\ bus = "open"
    /\ subs' = IF r[1] \in Subscribers THEN subs \cup {r} ELSE subs
    /\ loop' = [loop EXCEPT ![r] = "start"]
    /\ sup' = [sup EXCEPT ![r] = "select"]
    /\ UNCHANGED <<ctx, bus, starter, toStart, wg, cancelled, queue, published, handled>>

Park(r) ==
    /\ sup[r] = "select"
    /\ ctx = "live" /\ ~cancelled[r]
    /\ sup' = [sup EXCEPT ![r] = "parked"]
    /\ UNCHANGED <<ctx, bus, starter, toStart, wg, loop, cancelled, subs, queue, published, handled>>

SeeContextDone(r) ==
    /\ sup[r] = "select"
    /\ ctx = "done"
    /\ sup' = [sup EXCEPT ![r] = "done"]
    /\ UNCHANGED <<ctx, bus, starter, toStart, wg, loop, cancelled, subs, queue, published, handled>>

(* select chooses at random among its ready cases, so this case may be     *)
(* taken even when the user's context is done too.                         *)
SeeRunDone(r) ==
    /\ sup[r] = "select"
    /\ SubContextDone(r) /\ ~IsLastRun(r)
    /\ sup' = [sup EXCEPT ![r] = "sleep"]
    /\ UNCHANGED <<ctx, bus, starter, toStart, wg, loop, cancelled, subs, queue, published, handled>>

(* Mutant: wg.Add is missing. *)
RespawnUncounted(r) ==
    /\ sup[r] = "sleep"
    /\ sup' = [sup EXCEPT ![r] = "done", ![NextRun(r)] = "setup"]
    /\ UNCHANGED <<ctx, bus, starter, toStart, wg, loop, cancelled, subs, queue, published, handled>>

Respawn(r) ==
    /\ sup[r] = "sleep"
    /\ wg' = wg + 1
    /\ sup' = [sup EXCEPT ![r] = "done", ![NextRun(r)] = "setup"]
    /\ UNCHANGED <<ctx, bus, starter, toStart, loop, cancelled, subs, queue, published, handled>>

(* Mutant: the early return on ctx.Done() skips wg.Done. *)
SupervisorReturnsSilently(r) ==
    /\ sup[r] = "done"
    /\ wg' = IF ctx = "done" THEN wg ELSE wg - 1
    /\ sup' = [sup EXCEPT ![r] = "over"]
    /\ UNCHANGED <<ctx, bus, starter, toStart, loop, cancelled, subs, queue, published, handled>>

SupervisorReturns(r) ==
    /\ sup[r] = "done"
    /\ wg' = wg - 1
    /\ sup' = [sup EXCEPT ![r] = "over"]
    /\ UNCHANGED <<ctx, bus, starter, toStart, loop, cancelled, subs, queue, published, handled>>

-------------------------------------------------------------------------------
(* The loop goroutine of runHandler. *)

(* triggerAtStart decides whether the timer callback runs first. *)
BeginLoop(r) ==
    /\ loop[r] = "start"
    /\ \E next \in {"busy", "select"} : loop' = [loop EXCEPT ![r] = next]
    /\ UNCHANGED <<ctx, bus, starter, toStart, wg, sup, cancelled, subs, queue, published, handled>>

(* Mutant: break leaves the select, not the loop. *)
TakeContextDoneBreak(r) ==
    /\ loop[r] = "select"
    /\ ctx = "done"
    /\ loop' = [loop EXCEPT ![r] = "select"]
    /\ UNCHANGED <<ctx, bus, starter, toStart, wg, sup, cancelled, subs, queue, published, handled>>

TakeContextDone(r) ==
    /\ loop[r] = "select"
    /\ ctx = "done"
    /\ loop' = [loop EXCEPT ![r] = "teardown"]
    /\ UNCHANGED <<ctx, bus, starter, toStart, wg, sup, cancelled, subs, queue, published, handled>>

TakeMessage(r) ==
    /\ loop[r] = "select"
    /\ queue[r] # <<>>
    /\ queue' = [queue EXCEPT ![r] = Tail(@)]
    /\ handled' = [handled EXCEPT ![r[1]] = Append(@, Head(queue[r]))]
    /\ loop' = [loop EXCEPT ![r] = "busy"]
    /\ UNCHANGED <<ctx, bus, starter, toStart, wg, sup, cancelled, subs, published>>

(* A closed channel first delivers what is left in its buffer. *)
TakeChannelClosed(r) ==
    /\ loop[r] = "select"
    /\ r \in subs /\ bus = "shut" /\ queue[r] = <<>>
    /\ loop' = [loop EXCEPT ![r] = "teardown"]
    /\ UNCHANGED <<ctx, bus, starter, toStart, wg, sup, cancelled, subs, queue, published, handled>>

(* A tick of the handler's timer or an event of its Event channel. *)
TakeInterrupt(r) ==
    /\ loop[r] = "select"
    /\ loop' = [loop EXCEPT ![r] = "busy"]
    /\ UNCHANGED <<ctx, bus, starter, toStart, wg, sup, cancelled, subs, queue, published, handled>>

CallbackSucceeds(r) ==
    /\ loop[r] = "busy"
    /\ loop' = [loop EXCEPT ![r] = "select"]
    /\ UNCHANGED <<ctx, bus, starter, toStart, wg, sup, cancelled, subs, queue, published, handled>>

(* Mutant: the error is reported with cancel(), and the loop goes on. *)
CallbackFailsNoReturn(r) ==
    /\ loop[r] = "busy"
    /\ ~IsLastRun(r)
    /\ loop' = [loop EXCEPT ![r] = "select"]
    /\ cancelled' = [cancelled EXCEPT ![r] = TRUE]
    /\ sup' = IF sup[r] = "parked" THEN [sup EXCEPT ![r] = "sleep"] ELSE sup
    /\ UNCHANGED <<ctx, bus, starter, toStart, wg, subs, queue, published, handled>>

(* Mutant: the deferred calls in the opposite order, cancel before Teardown. *)
CallbackFailsCancelFirst(r) ==
    /\ loop[r] = "busy"
    /\ ~IsLastRun(r)
    /\ loop' = [loop EXCEPT ![r] = "teardown"]
    /\ cancelled' = [cancelled EXCEPT ![r] = TRUE]
    /\ sup' = IF sup[r] = "parked" THEN [sup EXCEPT ![r] = "sleep"] ELSE sup
    /\ UNCHANGED <<ctx, bus, starter, toStart, wg, subs, queue, published, handled>>

CallbackFails(r) ==
    /\ loop[r] = "busy"
    /\ ~IsLastRun(r)
    /\ loop' = [loop EXCEPT ![r] = "teardown"]
    /\ UNCHANGED <<ctx, bus, starter, toStart, wg, sup, cancelled, subs, queue, published, handled>>

(* The callback publishes a message; on a bus that was shut down it waits  *)
(* for ever.                                                               *)
CallbackPublishes(r) ==
    /\ loop[r] = "busy"
    /\ IF bus = "open"
       THEN /\ published < MaxMsgs
            /\ published' = published + 1
            /\ queue' = TryPub(queue, subs, published + 1)
            /\ UNCHANGED loop
       ELSE /\ loop' = [loop EXCEPT ![r] = "blocked"]
            /\ UNCHANGED <<published, queue>>
    /\ UNCHANGED <<ctx, bus, starter, toStart, wg, sup, cancelled, subs, handled>>

(* Mutant: cancel is forgotten. *)
TearDownNoCancel(r) ==
    /\ loop[r] = "teardown"
    /\ loop' = [loop EXCEPT ![r] = "over"]
    /\ UNCHANGED <<ctx, bus, starter, toStart, wg, sup, cancelled, subs, queue, published, handled>>

(* Deferred: Teardown, then cancel, which wakes a parked supervisor. *)
TearDown(r) ==
    /\ loop[r] = "teardown"
    /\ loop' = [loop EXCEPT ![r] = "over"]
    /\ cancelled' = [cancelled EXCEPT ![r] = TRUE]
    /\ sup' = IF sup[r] = "parked" THEN [sup EXCEPT ![r] = "sleep"] ELSE sup
    /\ UNCHANGED <<ctx, bus, starter, toStart, wg, subs, queue, published, handled>>

-------------------------------------------------------------------------------
(* A goroutine that is not a handler (the receiver of a Remote) publishes. *)
OthersPublish ==
    /\ bus = "open" /\ published < MaxMsgs
    /\ published' = published + 1
    /\ queue' = TryPub(queue, subs, published + 1)
    /\ UNCHANGED <<ctx, bus, starter, toStart, wg, sup, loop, cancelled, subs, handled>>

SupervisorStep(r) ==
    \/ SetupSucceeds(r) \/ SetupFails(r) \/ Subscribe(r)
    \/ Park(r) \/ SeeContextDone(r) \/ SeeRunDone(r)
    \/ Respawn(r) \/ SupervisorReturns(r)

CallbackReturns(r) == CallbackSucceeds(r) \/ CallbackFails(r)

LoopStep(r) ==
    \/ BeginLoop(r)
    \/ TakeContextDone(r) \/ TakeMessage(r) \/ TakeChannelClosed(r) \/ TakeInterrupt(r)
    \/ CallbackReturns(r) \/ CallbackPublishes(r)
    \/ TearDown(r)

StarterStep ==
    \/ \E h \in Handlers : LaunchHandler(h)
    \/ AllLaunched \/ WaitReturns \/ Shutdown

Next ==
    \/ StarterStep
    \/ \E r \in Runs : SupervisorStep(r) \/ LoopStep(r)
    \/ Cancel
    \/ OthersPublish

Spec == Init /\ [][Next]_vars

(* Goroutines that can run do run; Setup and the callbacks return (blocking *)
(* callbacks are the subject of the modules of the handlers); a select that *)
(* finds the context done over and over does take that case.  The user need *)
(* not cancel, the handlers need not fail.                                  *)
Fairness ==
    /\ WF_vars(StarterStep)
    /\ \A r \in Runs :
        /\ WF_vars(SupervisorStep(r))
        /\ WF_vars(BeginLoop(r))
        /\ SF_vars(TakeContextDone(r))
        /\ WF_vars(TakeChannelClosed(r))
        /\ WF_vars(CallbackReturns(r))
        /\ WF_vars(TearDown(r))

FairSpec == Spec /\ Fairness

-------------------------------------------------------------------------------
(* Safety. *)

Alive(r) == sup[r] \notin {"idle", "over"}

(* Goroutines that are executing code of the run's handler. *)
Active(r) == sup[r] \in {"setup", "sub"} \/ loop[r] \notin {"idle", "over"}

(* wg counts the supervisors: a respawn adds the new one before the old one *)
(* is done, so that the counter never misses a supervisor (controller.go:   *)
(* 164-180, 188-192).                                                       *)
WaitGroupExact == wg = Cardinality({r \in Runs : Alive(r)})

(* Start shuts the bus down only when no supervisor is left: no handler is  *)
(* ever set up or subscribed on a bus that would block it for ever.         *)
BusOutlivesSupervisors ==
    starter \in {"shutdown", "returned"} => \A r \in Runs : ~Alive(r)

(* Until the user cancels, the next run of a handler is set up only after   *)
(* the previous one was torn down: handlers keep their fields without locks.*)
OneRunAtATime ==
    ctx = "live" =>
        \A h \in Handlers : \A m, n \in 1..MaxRuns :
            Active(<<h, m>>) /\ Active(<<h, n>>) => m = n

(* Until the user cancels, a handler is given each message at most once and *)
(* in the order of publication, restarts included.                          *)
HandledInOrder ==
    ctx = "live" =>
        \A h \in Handlers : \A i, j \in DOMAIN handled[h] :
            i < j => handled[h][i] < handled[h][j]

-------------------------------------------------------------------------------
(* Liveness. *)

(* A run that ended is followed by another one, unless the user cancels     *)
(* (controller_test.go, TestHandlerError).                                  *)
FailedHandlerRestarts ==
    \A r \in Runs : ~IsLastRun(r) =>
        ((loop[r] = "over" \/ cancelled[r]) ~> (sup[NextRun(r)] # "idle" \/ ctx = "done"))

(* Once the user cancels, Start returns. *)
StartReturns == (ctx = "done") ~> (starter = "returned")

(* Once Start returned no handler keeps running: each loop goroutine ends,  *)
(* or waits for ever in a publication on the closed bus.                    *)
LoopsSettle ==
    (starter = "returned") ~>
        [](\A r \in Runs : loop[r] \in {"idle", "blocked", "over"})
==============================================================================
