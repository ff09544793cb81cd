-------------------------- MODULE ControllerProofs --------------------------
(***************************************************************************)
(* Proofs about Controller: the inductive invariant behind the accounting  *)
(* of the supervisors and the exclusion between the runs of a handler.     *)
(***************************************************************************)
EXTENDS Controller, FiniteSetTheorems, SequenceTheorems, TLAPS

(* A run that was cancelled has no loop and is past its set up. *)
CancelledIsQuiet ==
    \A r \in Runs : cancelled[r] =>
        loop[r] \in {"idle", "over"} /\ sup[r] \in {"select", "sleep", "done", "over"}

(* A run that was not set up yet has no loop. *)
LoopAfterSetup ==
    \A r \in Runs : sup[r] \in {"idle", "setup", "sub"} => loop[r] = "idle" /\ ~cancelled[r]

(* As long as the user does not cancel, a supervisor goes away only after  *)
(* its run was cancelled; afterwards nobody is parked.                     *)
GoneOnlyCancelled ==
    \A r \in Runs :
        IF ctx = "live"
        THEN sup[r] \in {"sleep", "done", "over"} => cancelled[r]
        ELSE sup[r] # "parked"

(* The runs of a handler start one after the other. *)
RunsInSequence ==
    \A h \in Handlers : \A m, n \in 1..MaxRuns :
        m < n /\ sup[<<h, n>>] # "idle" => sup[<<h, m>>] \in {"done", "over"}

(* The bound on the runs: the last one ends only when the system stops. *)
LastRunStays ==
    \A r \in Runs : IsLastRun(r) =>
        /\ sup[r] # "sleep"
        /\ loop[r] = "teardown" => ctx = "done" \/ bus = "shut"

(* What Start knows at each of its steps. *)
StarterProgress ==
    /\ \A h \in toStart : sup[FirstRun(h)] = "idle"
    /\ starter # "launching" => toStart = {}
    /\ bus = "shut" <=> starter = "returned"
    /\ BusOutlivesSupervisors

AliveRuns == {r \in Runs : Alive(r)}

(* The WaitGroup is exact; that there are finitely many supervisors is part *)
(* of the induction, since runs come and go one by one.                     *)
WaitGroupCounts == IsFiniteSet(AliveRuns) /\ wg = Cardinality(AliveRuns)

ControlInv ==
    /\ CancelledIsQuiet
    /\ LoopAfterSetup
    /\ GoneOnlyCancelled
    /\ RunsInSequence
    /\ LastRunStays
    /\ StarterProgress

IInv == TypeOK /\ ControlInv /\ WaitGroupCounts

-------------------------------------------------------------------------------
(* A run that may end has a successor, which is a different run. *)
LEMMA NextRunType ==
    ASSUME NEW r \in Runs, ~IsLastRun(r)
    PROVE  NextRun(r) \in Runs /\ NextRun(r) # r
BY ControllerAssumption DEF Runs, IsLastRun, NextRun

(* Each handler has a first run. *)
LEMMA FirstRunType ==
    ASSUME NEW h \in Handlers
    PROVE  FirstRun(h) \in Runs
BY ControllerAssumption DEF Runs, FirstRun

(* The initial states satisfy the invariant. *)
LEMMA InitIInv == Init => IInv
<1> SUFFICES ASSUME Init PROVE IInv
  OBVIOUS
<1>1. TypeOK
  BY ControllerAssumption DEF Init, TypeOK, SupStates, LoopStates
<1>2. ControlInv
  <2>1. RunsInSequence
    BY DEF Init, RunsInSequence, Runs
  <2>2. StarterProgress
    BY FirstRunType DEF Init, StarterProgress, BusOutlivesSupervisors
  <2> QED
    BY <2>1, <2>2 DEF Init, ControlInv, CancelledIsQuiet, LoopAfterSetup, GoneOnlyCancelled,
                      LastRunStays
<1>3. AliveRuns = {}
  BY DEF Init, AliveRuns, Alive
<1>4. WaitGroupCounts
  BY <1>3, FS_EmptySet DEF Init, WaitGroupCounts
<1> QED
  BY <1>1, <1>2, <1>4 DEF IInv

-------------------------------------------------------------------------------
(* Every step keeps the count of the supervisors: Add and Done go with the *)
(* supervisor that appears and the one that goes away.                     *)
LEMMA StepCounts == IInv /\ [Next]_vars => WaitGroupCounts'
<1> SUFFICES ASSUME IInv, [Next]_vars PROVE WaitGroupCounts'
  OBVIOUS
<1> USE DEF IInv, TypeOK
<1>1. CASE wg' = wg /\ \A r \in Runs : sup'[r] \in {"idle", "over"} <=> sup[r] \in {"idle", "over"}
  <2>1. AliveRuns' = AliveRuns
    BY <1>1 DEF AliveRuns, Alive
  <2> QED
    BY <2>1, <1>1 DEF WaitGroupCounts
<1>2. ASSUME NEW h \in Handlers, LaunchHandler(h) PROVE WaitGroupCounts'
  <2>1. FirstRun(h) \in Runs /\ sup[FirstRun(h)] = "idle"
    BY <1>2, FirstRunType DEF LaunchHandler, ControlInv, StarterProgress
  <2>2. AliveRuns' = AliveRuns \cup {FirstRun(h)} /\ FirstRun(h) \notin AliveRuns
    BY <1>2, <2>1 DEF LaunchHandler, AliveRuns, Alive
  <2> QED
    BY <1>2, <2>2, FS_AddElement DEF LaunchHandler, WaitGroupCounts
<1>3. ASSUME NEW r \in Runs, Respawn(r) PROVE WaitGroupCounts'
  <2>1. NextRun(r) \in Runs /\ NextRun(r) # r
    BY <1>3, NextRunType DEF Respawn, ControlInv, LastRunStays
  <2>2. sup[NextRun(r)] = "idle"
    <3>1. PICK h \in Handlers, n \in 1..MaxRuns : r = <<h, n>>
      BY DEF Runs
    <3>2. NextRun(r) = <<h, n + 1>> /\ n + 1 \in 1..MaxRuns /\ n < n + 1
      BY <2>1, <3>1, ControllerAssumption DEF NextRun, Runs
    <3> QED
      BY <1>3, <3>1, <3>2 DEF Respawn, ControlInv, RunsInSequence
  <2>3. AliveRuns' = AliveRuns \cup {NextRun(r)} /\ NextRun(r) \notin AliveRuns
    BY <1>3, <2>1, <2>2 DEF Respawn, AliveRuns, Alive
  <2> QED
    BY <1>3, <2>3, FS_AddElement DEF Respawn, WaitGroupCounts
<1>4. ASSUME NEW r \in Runs, SupervisorReturns(r) PROVE WaitGroupCounts'
  <2>1. AliveRuns' = AliveRuns \ {r} /\ r \in AliveRuns
    BY <1>4 DEF SupervisorReturns, AliveRuns, Alive
  <2> QED
    BY <1>4, <2>1, FS_RemoveElement DEF SupervisorReturns, WaitGroupCounts
<1>5. CASE AllLaunched \/ WaitReturns \/ Shutdown \/ Cancel \/ OthersPublish \/ UNCHANGED vars
  BY <1>1, <1>5 DEF AllLaunched, WaitReturns, Shutdown, Cancel, OthersPublish, vars
<1>6. ASSUME NEW r \in Runs, LoopStep(r) PROVE WaitGroupCounts'
  BY <1>1, <1>6 DEF LoopStep, BeginLoop, TakeContextDone, TakeMessage, TakeChannelClosed,
       TakeInterrupt, CallbackReturns, CallbackSucceeds, CallbackFails, CallbackPublishes, TearDown
<1>7. ASSUME NEW r \in Runs,
             SetupSucceeds(r) \/ SetupFails(r) \/ Subscribe(r) \/ Park(r)
               \/ SeeContextDone(r) \/ SeeRunDone(r)
      PROVE  WaitGroupCounts'
  BY <1>1, <1>7 DEF SetupSucceeds, SetupFails, Subscribe, Park, SeeContextDone, SeeRunDone
<1> QED
  BY <1>2, <1>3, <1>4, <1>5, <1>6, <1>7 DEF Next, StarterStep, SupervisorStep

(* Types: the buffers and the history only grow by messages of the bus. *)
LEMMA TryPubType ==
    ASSUME NEW q \in [Runs -> Seq(1..MaxMsgs)], NEW m \in 1..MaxMsgs, NEW to
    PROVE  TryPub(q, to, m) \in [Runs -> Seq(1..MaxMsgs)]
BY AppendProperties DEF TryPub, Offer

LEMMA StepTypes == IInv /\ [Next]_vars => TypeOK'
<1> SUFFICES ASSUME IInv, [Next]_vars PROVE TypeOK'
  OBVIOUS
<1> USE ControllerAssumption DEF IInv, TypeOK, SupStates, LoopStates
<1>1. wg' \in Nat
  BY StepCounts, FS_CardinalityType DEF WaitGroupCounts
<1>2. CASE UNCHANGED vars
  BY <1>2 DEF vars
<1>3. ASSUME NEW h \in Handlers, LaunchHandler(h) PROVE TypeOK'
  BY <1>1, <1>3 DEF LaunchHandler
<1>4. CASE AllLaunched \/ WaitReturns \/ Shutdown \/ Cancel
  BY <1>4 DEF AllLaunched, WaitReturns, Shutdown, Cancel
<1>5. ASSUME NEW r \in Runs, SupervisorStep(r) PROVE TypeOK'
  <2>1. CASE SetupSucceeds(r) \/ SetupFails(r) \/ Subscribe(r) \/ Park(r)
               \/ SeeContextDone(r) \/ SeeRunDone(r)
    BY <2>1 DEF SetupSucceeds, SetupFails, Subscribe, Park, SeeContextDone, SeeRunDone
  <2>2. CASE Respawn(r) \/ SupervisorReturns(r)
    BY <1>1, <2>2 DEF Respawn, SupervisorReturns
  <2> QED
    BY <1>5, <2>1, <2>2 DEF SupervisorStep
<1>6. ASSUME NEW r \in Runs, LoopStep(r) PROVE TypeOK'
  <2>1. CASE BeginLoop(r) \/ TakeContextDone(r) \/ TakeChannelClosed(r) \/ TakeInterrupt(r)
               \/ CallbackReturns(r) \/ TearDown(r)
    BY <2>1 DEF BeginLoop, TakeContextDone, TakeChannelClosed, TakeInterrupt,
         CallbackReturns, CallbackSucceeds, CallbackFails, TearDown
  <2>2. CASE TakeMessage(r)
    <3>1. Head(queue[r]) \in 1..MaxMsgs /\ Tail(queue[r]) \in Seq(1..MaxMsgs)
      BY <2>2, HeadTailProperties DEF TakeMessage
    <3>2. r[1] \in Handlers /\ Append(handled[r[1]], Head(queue[r])) \in Seq(1..MaxMsgs)
      BY <3>1, AppendProperties DEF Runs
    <3> QED
      BY <2>2, <3>1, <3>2 DEF TakeMessage
  <2>3. CASE CallbackPublishes(r)
    <3>1. published < MaxMsgs => published + 1 \in 1..MaxMsgs /\ published + 1 \in 0..MaxMsgs
      BY ControllerAssumption
    <3>2. published < MaxMsgs => TryPub(queue, subs, published + 1) \in [Runs -> Seq(1..MaxMsgs)]
      BY <3>1, TryPubType
    <3>3. CASE bus = "open"
      BY <2>3, <3>1, <3>2, <3>3 DEF CallbackPublishes
    <3>4. CASE bus # "open"
      BY <2>3, <3>4 DEF CallbackPublishes
    <3> QED
      BY <3>3, <3>4
  <2> QED
    BY <1>6, <2>1, <2>2, <2>3 DEF LoopStep
<1>7. CASE OthersPublish
  BY <1>7, TryPubType DEF OthersPublish
<1> QED
  BY <1>2, <1>3, <1>4, <1>5, <1>6, <1>7 DEF Next, StarterStep

-------------------------------------------------------------------------------
(* The control part of the invariant, kind of step by kind of step. *)
LEMMA StartKeepsControl ==
    ASSUME IInv, StarterStep \/ Cancel \/ OthersPublish \/ UNCHANGED vars
    PROVE  ControlInv'
<1> USE DEF IInv, TypeOK, ControlInv, CancelledIsQuiet, LoopAfterSetup, GoneOnlyCancelled,
        LastRunStays, StarterProgress, BusOutlivesSupervisors, Alive
<1>1. ASSUME NEW h \in Handlers, LaunchHandler(h) PROVE ControlInv'
  <2>1. FirstRun(h) \in Runs /\ sup[FirstRun(h)] = "idle" /\ h \in toStart
    BY <1>1, FirstRunType DEF LaunchHandler
  <2>2. \A n \in 1..MaxRuns : sup[<<h, n>>] = "idle"
    BY <2>1, ControllerAssumption DEF RunsInSequence, FirstRun
  <2>3. RunsInSequence'
    BY <1>1, <2>1, <2>2 DEF LaunchHandler, RunsInSequence, FirstRun, Runs
  <2>4. \A k \in toStart' : sup'[FirstRun(k)] = "idle"
    BY <1>1, FirstRunType DEF LaunchHandler, FirstRun
  <2> QED
    BY <1>1, <2>1, <2>3, <2>4 DEF LaunchHandler
<1>2. CASE AllLaunched \/ Shutdown \/ OthersPublish \/ UNCHANGED vars
  BY <1>2 DEF AllLaunched, Shutdown, OthersPublish, vars, RunsInSequence
<1>3. CASE WaitReturns
  <2>1. AliveRuns = {}
    BY <1>3, FS_EmptySet DEF WaitReturns, WaitGroupCounts
  <2> QED
    BY <1>3, <2>1 DEF WaitReturns, RunsInSequence, AliveRuns
<1>4. CASE Cancel
  BY <1>4, FirstRunType DEF Cancel, RunsInSequence, Runs
<1> QED
  BY <1>1, <1>2, <1>3, <1>4 DEF StarterStep

(* A step by which no run appears and no supervisor comes back. *)
LEMMA SequenceKept ==
    ASSUME RunsInSequence,
           \A s \in Runs : /\ sup[s] = "idle" => sup'[s] = "idle"
                           /\ sup[s] \in {"done", "over"} => sup'[s] \in {"done", "over"}
    PROVE  RunsInSequence'
BY DEF RunsInSequence, Runs

LEMMA SupervisorKeepsControl ==
    ASSUME IInv, NEW r \in Runs, SupervisorStep(r)
    PROVE  ControlInv'
<1> USE DEF IInv, TypeOK, ControlInv
<1>0. \A h \in Handlers : FirstRun(h) \in Runs
  BY FirstRunType
<1>1. ASSUME SetupSucceeds(r) \/ SetupFails(r) \/ Subscribe(r) \/ Park(r)
               \/ SeeContextDone(r) \/ SeeRunDone(r) \/ SupervisorReturns(r)
      PROVE  ControlInv'
  <2> USE <1>1 DEF SetupSucceeds, SetupFails, Subscribe, Park, SeeContextDone, SeeRunDone,
                   SupervisorReturns
  <2>1. RunsInSequence'
    <3>1. \A s \in Runs : /\ sup[s] = "idle" => sup'[s] = "idle"
                          /\ sup[s] \in {"done", "over"} => sup'[s] \in {"done", "over"}
      OBVIOUS
    <3> QED
      BY <3>1, SequenceKept
  <2>2. CancelledIsQuiet' /\ LoopAfterSetup'
    BY DEF CancelledIsQuiet, LoopAfterSetup
  <2>3. GoneOnlyCancelled'
    BY DEF GoneOnlyCancelled, SubContextDone
  <2>4. LastRunStays'
    BY DEF LastRunStays, IsLastRun
  <2>5. StarterProgress'
    BY <1>0 DEF StarterProgress, BusOutlivesSupervisors, Alive
  <2> QED
    BY <2>1, <2>2, <2>3, <2>4, <2>5
<1>2. CASE Respawn(r)
  <2>1. PICK h \in Handlers, n \in 1..MaxRuns : r = <<h, n>>
    BY DEF Runs
  <2>2. NextRun(r) \in Runs /\ NextRun(r) # r
    BY <1>2, NextRunType DEF Respawn, LastRunStays
  <2>3. NextRun(r) = <<h, n + 1>> /\ n + 1 \in 1..MaxRuns /\ n < n + 1
    BY <2>1, <2>2, ControllerAssumption DEF NextRun, Runs
  <2>4. sup[NextRun(r)] = "idle" /\ sup[r] = "sleep"
    BY <1>2, <2>1, <2>3 DEF Respawn, RunsInSequence
  <2>5. \A s \in Runs : sup'[s] = IF s = NextRun(r) THEN "setup"
                                  ELSE IF s = r THEN "done" ELSE sup[s]
    BY <1>2, <2>2 DEF Respawn
  <2>6. RunsInSequence'
    <3> SUFFICES ASSUME NEW k \in Handlers, NEW i \in 1..MaxRuns, NEW j \in 1..MaxRuns,
                        i < j, sup'[<<k, j>>] # "idle"
                 PROVE  sup'[<<k, i>>] \in {"done", "over"}
      BY DEF RunsInSequence
    <3>1. <<k, i>> \in Runs /\ <<k, j>> \in Runs
      BY DEF Runs
    <3>2. <<k, i>> = r \/ sup[<<k, i>>] \in {"done", "over"}
      <4>1. CASE <<k, j>> = NextRun(r)
        <5>1. k = h /\ (i = n \/ i < n)
          BY <2>3, <4>1, ControllerAssumption
        <5> QED
          BY <2>1, <2>4, <5>1 DEF RunsInSequence
      <4>2. CASE <<k, j>> # NextRun(r)
        BY <2>4, <2>5, <3>1, <4>2 DEF RunsInSequence
      <4> QED
        BY <4>1, <4>2
    <3> QED
      BY <2>2, <2>4, <2>5, <3>1, <3>2
  <2>7. StarterProgress'
    <3>1. \A k \in toStart : FirstRun(k) # NextRun(r) /\ FirstRun(k) # r
      BY <2>1, <2>3, <2>4 DEF FirstRun, StarterProgress
    <3>2. starter \notin {"shutdown", "returned"}
      BY <2>4 DEF StarterProgress, BusOutlivesSupervisors, Alive
    <3> QED
      BY <1>0, <1>2, <2>5, <3>1, <3>2 DEF Respawn, StarterProgress, BusOutlivesSupervisors
  <2>8. CancelledIsQuiet' /\ LoopAfterSetup'
    BY <1>2, <2>2, <2>4, <2>5 DEF Respawn, CancelledIsQuiet, LoopAfterSetup
  <2>9. GoneOnlyCancelled' /\ LastRunStays'
    BY <1>2, <2>4, <2>5 DEF Respawn, GoneOnlyCancelled, LastRunStays
  <2> QED
    BY <2>6, <2>7, <2>8, <2>9
<1> QED
  BY <1>1, <1>2 DEF SupervisorStep

LEMMA LoopKeepsControl ==
    ASSUME IInv, NEW r \in Runs, LoopStep(r)
    PROVE  ControlInv'
<1> USE DEF IInv, TypeOK, ControlInv
<1>0. \A h \in Handlers : FirstRun(h) \in Runs
  BY FirstRunType
<1>1. CASE TearDown(r)
  <2>1. RunsInSequence'
    <3>1. \A s \in Runs : /\ sup[s] = "idle" => sup'[s] = "idle"
                          /\ sup[s] \in {"done", "over"} => sup'[s] \in {"done", "over"}
      BY <1>1 DEF TearDown
    <3> QED
      BY <3>1, SequenceKept
  <2>2. sup[r] \notin {"idle", "setup", "sub"}
    BY <1>1 DEF TearDown, LoopAfterSetup
  <2>3. sup[r] = "parked" => ~IsLastRun(r)
    BY <1>1 DEF TearDown, LastRunStays, GoneOnlyCancelled, StarterProgress,
                BusOutlivesSupervisors, Alive
  <2>4. CancelledIsQuiet' /\ LoopAfterSetup'
    BY <1>1, <2>2 DEF TearDown, CancelledIsQuiet, LoopAfterSetup, SupStates
  <2>5. GoneOnlyCancelled' /\ LastRunStays'
    BY <1>1, <2>3 DEF TearDown, GoneOnlyCancelled, LastRunStays, IsLastRun
  <2>6. StarterProgress'
    BY <1>0, <1>1 DEF TearDown, StarterProgress, BusOutlivesSupervisors, Alive
  <2> QED
    BY <2>1, <2>4, <2>5, <2>6
<1>2. ASSUME BeginLoop(r) \/ TakeContextDone(r) \/ TakeMessage(r) \/ TakeChannelClosed(r)
             \/ TakeInterrupt(r) \/ CallbackReturns(r) \/ CallbackPublishes(r)
      PROVE  ControlInv'
  <2>1. /\ UNCHANGED <<ctx, bus, starter, toStart, sup, cancelled>>
        /\ \A s \in Runs \ {r} : loop'[s] = loop[s]
        /\ loop[r] \notin {"idle", "over"} /\ loop'[r] \notin {"idle", "over"}
        /\ loop'[r] = "teardown" /\ IsLastRun(r) => ctx = "done" \/ bus = "shut"
    BY <1>2 DEF BeginLoop, TakeContextDone, TakeMessage, TakeChannelClosed, TakeInterrupt,
       CallbackReturns, CallbackSucceeds, CallbackFails, CallbackPublishes
  <2>2. RunsInSequence' /\ GoneOnlyCancelled'
    BY <2>1 DEF RunsInSequence, GoneOnlyCancelled
  <2>3. StarterProgress'
    BY <1>0, <2>1 DEF StarterProgress, BusOutlivesSupervisors, Alive
  <2>4. CancelledIsQuiet' /\ LoopAfterSetup' /\ LastRunStays'
    BY <2>1 DEF CancelledIsQuiet, LoopAfterSetup, LastRunStays, IsLastRun
  <2> QED
    BY <2>2, <2>3, <2>4
<1> QED
  BY <1>1, <1>2 DEF LoopStep

-------------------------------------------------------------------------------
(* The invariant holds in every reachable state. *)
THEOREM Invariance == Spec => []IInv
<1>1. IInv /\ [Next]_vars => IInv'
  <2> SUFFICES ASSUME IInv, [Next]_vars PROVE IInv'
    OBVIOUS
  <2>1. ControlInv'
    BY StartKeepsControl, SupervisorKeepsControl, LoopKeepsControl DEF Next
  <2> QED
    BY <2>1, StepTypes, StepCounts DEF IInv
<1> QED
  BY <1>1, InitIInv, PTL DEF Spec

(* Every variable keeps its type; in particular the WaitGroup never goes    *)
(* negative, which Go answers with a panic.                                 *)
THEOREM TypeCorrect == Spec => []TypeOK
BY Invariance, PTL DEF IInv

(* The WaitGroup always equals the number of supervisors (controller.go:    *)
(* 164-192), for any set of handlers and any number of restarts.            *)
THEOREM WaitGroupIsExact == Spec => []WaitGroupExact
<1>1. IInv => WaitGroupExact
  BY DEF IInv, WaitGroupCounts, WaitGroupExact, AliveRuns
<1> QED
  BY <1>1, Invariance, PTL

(* No supervisor is left when Start shuts the bus down (controller.go:194). *)
THEOREM BusOutlives == Spec => []BusOutlivesSupervisors
<1>1. IInv => BusOutlivesSupervisors
  BY DEF IInv, ControlInv, StarterProgress
<1> QED
  BY <1>1, Invariance, PTL

(* Until the user cancels, two runs of a handler never overlap              *)
(* (controller.go:115-120, 176-179).                                        *)
THEOREM RunsExclude == Spec => []OneRunAtATime
<1>1. IInv => OneRunAtATime
  <2> SUFFICES ASSUME IInv, ctx = "live", NEW h \in Handlers,
                      NEW m \in 1..MaxRuns, NEW n \in 1..MaxRuns,
                      Active(<<h, m>>), Active(<<h, n>>), m < n
               PROVE  FALSE
    BY ControllerAssumption DEF OneRunAtATime
  <2> <<h, m>> \in Runs /\ <<h, n>> \in Runs
    BY DEF Runs
  <2>1. sup[<<h, n>>] # "idle"
    BY DEF IInv, ControlInv, LoopAfterSetup, Active
  <2>2. sup[<<h, m>>] \in {"done", "over"}
    BY <2>1 DEF IInv, ControlInv, RunsInSequence
  <2>3. cancelled[<<h, m>>]
    BY <2>2 DEF IInv, ControlInv, GoneOnlyCancelled
  <2> QED
    BY <2>2, <2>3 DEF IInv, ControlInv, CancelledIsQuiet, Active
<1> QED
  BY <1>1, Invariance, PTL

-------------------------------------------------------------------------------
(* What each handler was given, and when. *)

(* Messages are numbered when they are published. *)
Numbered ==
    /\ \A r \in Runs : \A i \in DOMAIN queue[r] : queue[r][i] <= published
    /\ \A h \in Handlers : \A i \in DOMAIN handled[h] : handled[h][i] <= published

(* A channel offers its messages in the order of publication. *)
QueuesInOrder ==
    \A r \in Runs : \A i, j \in DOMAIN queue[r] : i < j => queue[r][i] < queue[r][j]

(* Before it is subscribed a run has received nothing. *)
NothingBeforeSub ==
    \A r \in Runs : sup[r] \in {"idle", "setup", "sub"} => r \notin subs /\ queue[r] = <<>>

(* As long as the user does not cancel, what waits in the channel of a run  *)
(* that goes on is newer than all that its handler was given, by this run   *)
(* or by an earlier one.                                                    *)
QueueIsNewer ==
    ctx = "live" =>
        \A r \in Runs : ~cancelled[r] =>
            \A i \in DOMAIN handled[r[1]], j \in DOMAIN queue[r] : handled[r[1]][i] < queue[r][j]

OrderInv == Numbered /\ QueuesInOrder /\ NothingBeforeSub /\ QueueIsNewer /\ HandledInOrder

(* What a sequence of messages holds. *)
LEMMA MessageSequence ==
    ASSUME NEW q \in Seq(1..MaxMsgs)
    PROVE  /\ Len(q) \in Nat /\ DOMAIN q = 1..Len(q)
           /\ \A i \in DOMAIN q : q[i] \in 1..MaxMsgs /\ q[i] \in Nat
<1>1. Len(q) \in Nat /\ DOMAIN q = 1..Len(q)
  BY LenProperties
<1>2. \A i \in 1..Len(q) : q[i] \in 1..MaxMsgs
  BY ElementOfSeq
<1> QED
  BY <1>1, <1>2, ControllerAssumption

(* A sequence that holds one more message. *)
Extended(after, q, m) ==
    /\ Len(q) \in Nat /\ DOMAIN q = 1..Len(q)
    /\ DOMAIN after = 1..(Len(q) + 1)
    /\ \A i \in 1..Len(q) : after[i] = q[i]
    /\ after[Len(q) + 1] = m

LEMMA AppendExtends ==
    ASSUME NEW q \in Seq(1..MaxMsgs), NEW m \in 1..MaxMsgs
    PROVE  Extended(Append(q, m), q, m)
<1>1. Len(q) \in Nat /\ DOMAIN q = 1..Len(q)
  BY LenProperties
<1>2. /\ Append(q, m) \in Seq(1..MaxMsgs) /\ Len(Append(q, m)) = Len(q) + 1
      /\ \A i \in 1..Len(q) : Append(q, m)[i] = q[i]
      /\ Append(q, m)[Len(q) + 1] = m
  BY AppendProperties
<1>3. DOMAIN Append(q, m) = 1..(Len(q) + 1)
  BY <1>2, LenProperties
<1> QED
  BY <1>1, <1>2, <1>3 DEF Extended

(* A channel after a message was offered to it. *)
LEMMA OfferedChannel ==
    ASSUME NEW q \in Seq(1..MaxMsgs), NEW m \in 1..MaxMsgs
    PROVE  Offer(q, m) = q \/ Extended(Offer(q, m), q, m)
BY AppendExtends DEF Offer

(* A channel after its first message was taken. *)
LEMMA TakenChannel ==
    ASSUME NEW q \in Seq(1..MaxMsgs), q # <<>>
    PROVE  /\ 1 \in DOMAIN q /\ Head(q) = q[1] /\ Head(q) \in 1..MaxMsgs
           /\ DOMAIN Tail(q) \subseteq Nat \ {0}
           /\ \A i \in DOMAIN Tail(q) : i + 1 \in DOMAIN q /\ Tail(q)[i] = q[i + 1]
<1> DEFINE S == 1..MaxMsgs
<1> q \in Seq(S)
  OBVIOUS
<1> HIDE DEF S
<1>1. /\ Len(q) \in Nat \ {0} /\ Head(q) = q[1] /\ Head(q) \in S
      /\ Tail(q) \in Seq(S) /\ Len(Tail(q)) = Len(q) - 1
      /\ \A i \in 1..Len(Tail(q)) : Tail(q)[i] = q[i + 1]
  BY HeadTailProperties, EmptySeq
<1>2. DOMAIN q = 1..Len(q) /\ DOMAIN Tail(q) = 1..Len(Tail(q))
  BY <1>1, LenProperties
<1> QED
  BY <1>1, <1>2 DEF S

LEMMA InitOrder == Init => OrderInv
BY EmptySeq DEF Init, OrderInv, Numbered, QueuesInOrder, NothingBeforeSub, QueueIsNewer, HandledInOrder, Runs

(* Publication: the new message is newer than everything. *)
LEMMA PublishKeepsOrder ==
    ASSUME IInv, OrderInv, published < MaxMsgs, published' = published + 1,
           queue' = TryPub(queue, subs, published + 1),
           UNCHANGED <<ctx, sup, cancelled, subs, handled>>
    PROVE  OrderInv'
<1> DEFINE m == published + 1
<1>1. published \in Nat /\ m \in Nat /\ m \in 1..MaxMsgs
  BY ControllerAssumption DEF IInv, TypeOK
<1>2. \A r \in Runs : /\ queue'[r] = IF r \in subs THEN Offer(queue[r], m) ELSE queue[r]
                      /\ queue[r] \in Seq(1..MaxMsgs)
  BY DEF IInv, TypeOK, TryPub
<1>3. \A h \in Handlers : \A i \in DOMAIN handled[h] : handled[h][i] \in Nat /\ handled[h][i] <= published
  <2>1. \A h \in Handlers : handled[h] \in Seq(1..MaxMsgs)
    BY DEF IInv, TypeOK
  <2> QED
    BY <2>1, MessageSequence DEF OrderInv, Numbered
<1>4. \A r \in Runs : \A i \in DOMAIN queue[r] : queue[r][i] \in Nat /\ queue[r][i] <= published
  BY <1>2, MessageSequence DEF OrderInv, Numbered
<1>5. \A r \in Runs : queue'[r] = queue[r] \/ Extended(queue'[r], queue[r], m)
  <2> SUFFICES ASSUME NEW r \in Runs, r \in subs
               PROVE  queue'[r] = queue[r] \/ Extended(queue'[r], queue[r], m)
    BY <1>2
  <2>1. queue'[r] = Offer(queue[r], m) /\ queue[r] \in Seq(1..MaxMsgs)
    BY <1>2
  <2> HIDE DEF m
  <2> QED
    BY <1>1, <2>1, OfferedChannel
<1> HIDE DEF m
<1>m. m = published + 1
  BY DEF m
<1>6. Numbered'
  <2>1. \A r \in Runs : \A i \in DOMAIN queue'[r] :
            (i \in DOMAIN queue[r] /\ queue'[r][i] = queue[r][i]) \/ queue'[r][i] = m
    BY <1>5 DEF Extended
  <2>2. \A r \in Runs : \A i \in DOMAIN queue'[r] : queue'[r][i] <= m
    BY <1>1, <1>m, <1>4, <2>1
  <2>3. \A h \in Handlers : \A i \in DOMAIN handled[h] : handled[h][i] <= m
    BY <1>1, <1>m, <1>3
  <2> QED
    BY <1>m, <2>2, <2>3 DEF Numbered
<1>7. QueuesInOrder'
  <2> SUFFICES ASSUME NEW r \in Runs, NEW i \in DOMAIN queue'[r], NEW j \in DOMAIN queue'[r], i < j
               PROVE  queue'[r][i] < queue'[r][j]
    BY DEF QueuesInOrder
  <2>1. CASE queue'[r] = queue[r]
    BY <2>1 DEF OrderInv, QueuesInOrder
  <2>2. CASE Extended(queue'[r], queue[r], m)
    <3>1. i \in DOMAIN queue[r] /\ queue'[r][i] = queue[r][i]
      BY <2>2 DEF Extended
    <3>2. (j \in DOMAIN queue[r] /\ queue'[r][j] = queue[r][j]) \/ queue'[r][j] = m
      BY <2>2 DEF Extended
    <3> QED
      BY <1>1, <1>m, <1>4, <3>1, <3>2 DEF OrderInv, QueuesInOrder
  <2> QED
    BY <1>5, <2>1, <2>2
<1>8. NothingBeforeSub'
  BY <1>2 DEF OrderInv, NothingBeforeSub
<1>9. QueueIsNewer'
  <2> SUFFICES ASSUME ctx = "live", NEW r \in Runs, ~cancelled[r],
                      NEW i \in DOMAIN handled[r[1]], NEW j \in DOMAIN queue'[r]
               PROVE  handled[r[1]][i] < queue'[r][j]
    BY DEF QueueIsNewer
  <2>1. r[1] \in Handlers
    BY DEF Runs
  <2>2. handled[r[1]][i] \in Nat /\ handled[r[1]][i] <= published
    BY <1>3, <2>1
  <2>3. (j \in DOMAIN queue[r] /\ queue'[r][j] = queue[r][j]) \/ queue'[r][j] = m
    BY <1>5 DEF Extended
  <2> QED
    BY <1>1, <1>m, <2>2, <2>3 DEF OrderInv, QueueIsNewer
<1> QED
  BY <1>6, <1>7, <1>8, <1>9 DEF OrderInv, HandledInOrder

(* A message is given to the handler: only one run takes messages, and what *)
(* the others hold is empty or dead.                                        *)
LEMMA TakeKeepsOrder ==
    ASSUME IInv, OrderInv, NEW r \in Runs, TakeMessage(r)
    PROVE  OrderInv'
<1> DEFINE h == r[1]
           m == Head(queue[r])
<1>1. /\ loop[r] = "select" /\ queue[r] # <<>> /\ h \in Handlers
      /\ \A s \in Runs : queue'[s] = IF s = r THEN Tail(queue[r]) ELSE queue[s]
      /\ \A k \in Handlers : handled'[k] = IF k = h THEN Append(handled[h], m) ELSE handled[k]
      /\ UNCHANGED <<ctx, sup, cancelled, subs, published>>
  BY DEF TakeMessage, IInv, TypeOK, Runs
<1>2. published \in Nat /\ queue[r] \in Seq(1..MaxMsgs) /\ handled[h] \in Seq(1..MaxMsgs)
  BY <1>1, ControllerAssumption DEF IInv, TypeOK
<1>3. /\ 1 \in DOMAIN queue[r] /\ m = queue[r][1] /\ m \in 1..MaxMsgs
      /\ DOMAIN Tail(queue[r]) \subseteq Nat \ {0}
      /\ \A i \in DOMAIN Tail(queue[r]) : i + 1 \in DOMAIN queue[r] /\ Tail(queue[r])[i] = queue[r][i + 1]
  BY <1>1, <1>2, TakenChannel
<1>4. Extended(handled'[h], handled[h], m)
  <2>1. handled'[h] = Append(handled[h], m)
    BY <1>1
  <2> HIDE DEF m, h
  <2> QED
    BY <1>2, <1>3, <2>1, AppendExtends
<1> HIDE DEF m
<1>5. \A i \in DOMAIN Tail(queue[r]) : m < Tail(queue[r])[i]
  BY <1>3 DEF OrderInv, QueuesInOrder
<1>6. Numbered'
  <2>1. \A s \in Runs : \A i \in DOMAIN queue'[s] : queue'[s][i] <= published
    <3>1. \A i \in DOMAIN Tail(queue[r]) : Tail(queue[r])[i] <= published
      BY <1>3 DEF OrderInv, Numbered
    <3> QED
      BY <1>1, <3>1 DEF OrderInv, Numbered
  <2>2. m <= published
    BY <1>3 DEF OrderInv, Numbered
  <2>3. \A i \in DOMAIN handled'[h] : handled'[h][i] = m \/ (i \in DOMAIN handled[h] /\ handled'[h][i] = handled[h][i])
    BY <1>4 DEF Extended
  <2>4. \A k \in Handlers : \A i \in DOMAIN handled'[k] : handled'[k][i] <= published
    BY <1>1, <2>2, <2>3 DEF OrderInv, Numbered
  <2> QED
    BY <1>1, <2>1, <2>4 DEF Numbered
<1>7. QueuesInOrder'
  <2>1. \A i, j \in DOMAIN Tail(queue[r]) : i < j => Tail(queue[r])[i] < Tail(queue[r])[j]
    <3> SUFFICES ASSUME NEW i \in DOMAIN Tail(queue[r]), NEW j \in DOMAIN Tail(queue[r]), i < j
                 PROVE  Tail(queue[r])[i] < Tail(queue[r])[j]
      OBVIOUS
    <3>1. i \in Nat /\ j \in Nat /\ i + 1 < j + 1
      BY <1>3
    <3> QED
      BY <1>3, <3>1 DEF OrderInv, QueuesInOrder
  <2> QED
    BY <1>1, <2>1 DEF OrderInv, QueuesInOrder
<1>8. NothingBeforeSub'
  BY <1>1 DEF IInv, ControlInv, LoopAfterSetup, OrderInv, NothingBeforeSub
<1>9. ~cancelled[r] /\ sup[r] \notin {"idle", "setup", "sub"}
  BY <1>1 DEF IInv, ControlInv, CancelledIsQuiet, LoopAfterSetup
<1>10. ctx = "live" => \A s \in Runs : s[1] = h /\ s # r /\ ~cancelled[s] => queue[s] = <<>>
  <2> SUFFICES ASSUME ctx = "live", NEW s \in Runs, s[1] = h, s # r, ~cancelled[s]
               PROVE  queue[s] = <<>>
    OBVIOUS
  <2>1. PICK m1 \in 1..MaxRuns, n1 \in 1..MaxRuns : r = <<h, m1>> /\ s = <<h, n1>> /\ m1 # n1
    BY DEF Runs
  <2>2. sup[s] \notin {"sleep", "done", "over"} /\ sup[r] \notin {"sleep", "done", "over"}
    BY <1>9 DEF IInv, ControlInv, GoneOnlyCancelled
  <2>3. sup[s] = "idle"
    BY <1>1, <1>9, <2>1, <2>2, ControllerAssumption DEF IInv, ControlInv, RunsInSequence
  <2> QED
    BY <2>3 DEF OrderInv, NothingBeforeSub
<1>11. ctx = "live" => \A i \in DOMAIN handled[h] : handled[h][i] < m
  BY <1>3, <1>9 DEF OrderInv, QueueIsNewer
<1>12. QueueIsNewer'
  <2> SUFFICES ASSUME ctx = "live", NEW s \in Runs, ~cancelled[s],
                      NEW i \in DOMAIN handled'[s[1]], NEW j \in DOMAIN queue'[s]
               PROVE  handled'[s[1]][i] < queue'[s][j]
    BY <1>1 DEF QueueIsNewer
  <2>0. s[1] \in Handlers
    BY DEF Runs
  <2>1. CASE s[1] # h
    BY <1>1, <2>0, <2>1 DEF OrderInv, QueueIsNewer
  <2>2. CASE s = r
    <3>1. queue'[s][j] = queue[r][j + 1] /\ j + 1 \in DOMAIN queue[r] /\ m < queue'[s][j]
      BY <1>1, <1>3, <1>5, <2>2
    <3>2. handled'[h][i] = m \/ (i \in DOMAIN handled[h] /\ handled'[h][i] = handled[h][i])
      BY <1>4, <2>2 DEF Extended
    <3> QED
      BY <1>9, <2>2, <3>1, <3>2 DEF OrderInv, QueueIsNewer
  <2>3. CASE s[1] = h /\ s # r
    BY <1>1, <1>10, <2>3, EmptySeq
  <2> QED
    BY <2>1, <2>2, <2>3
<1>13. HandledInOrder'
  <2> SUFFICES ASSUME ctx = "live", NEW k \in Handlers,
                      NEW i \in DOMAIN handled'[k], NEW j \in DOMAIN handled'[k], i < j
               PROVE  handled'[k][i] < handled'[k][j]
    BY <1>1 DEF HandledInOrder
  <2>1. CASE k # h
    BY <1>1, <2>1 DEF OrderInv, HandledInOrder
  <2>2. CASE k = h
    <3>1. i \in DOMAIN handled[h] /\ handled'[h][i] = handled[h][i]
      BY <1>4, <2>2 DEF Extended
    <3>2. handled'[h][j] = m \/ (j \in DOMAIN handled[h] /\ handled'[h][j] = handled[h][j])
      BY <1>4, <2>2, SMTT(40) DEF Extended
    <3> QED
      BY <1>11, <2>2, <3>1, <3>2 DEF OrderInv, HandledInOrder
  <2> QED
    BY <2>1, <2>2
<1> QED
  BY <1>6, <1>7, <1>8, <1>12, <1>13 DEF OrderInv

(* The other steps leave channels and histories alone; channels are         *)
(* registered only when the run leaves its set up.                          *)
LEMMA ControlKeepsOrder ==
    ASSUME IInv, IInv', OrderInv,
           UNCHANGED <<queue, published, handled>>, ctx' = "live" => ctx = "live",
           \A r \in Runs : /\ ~cancelled'[r] => ~cancelled[r]
                           /\ sup'[r] \in {"idle", "setup", "sub"} =>
                                 sup[r] \in {"idle", "setup", "sub"} /\ (r \in subs' => r \in subs)
    PROVE  OrderInv'
BY DEF OrderInv, Numbered, QueuesInOrder, NothingBeforeSub, QueueIsNewer, HandledInOrder

LEMMA StepKeepsOrder == IInv /\ IInv' /\ OrderInv /\ [Next]_vars => OrderInv'
<1> SUFFICES ASSUME IInv, IInv', OrderInv, [Next]_vars PROVE OrderInv'
  OBVIOUS
<1>1. CASE StarterStep \/ Cancel \/ UNCHANGED vars
  <2>1. ASSUME NEW h \in Handlers, LaunchHandler(h) PROVE OrderInv'
    <3>1. /\ sup[FirstRun(h)] = "idle" /\ UNCHANGED <<ctx, cancelled, subs, queue, published, handled>>
          /\ \A r \in Runs : sup'[r] = IF r = FirstRun(h) THEN "setup" ELSE sup[r]
      BY <2>1, FirstRunType DEF LaunchHandler, IInv, TypeOK, ControlInv, StarterProgress
    <3> QED
      BY <3>1, ControlKeepsOrder
  <2>2. CASE AllLaunched \/ WaitReturns \/ Shutdown \/ Cancel \/ UNCHANGED vars
    <3>1. /\ UNCHANGED <<cancelled, subs, queue, published, handled>> /\ (ctx' = "live" => ctx = "live")
          /\ \A r \in Runs : sup'[r] \in {"idle", "setup", "sub"} => sup[r] \in {"idle", "setup", "sub"}
      BY <2>2 DEF AllLaunched, WaitReturns, Shutdown, Cancel, vars
    <3> QED
      BY <3>1, ControlKeepsOrder
  <2> QED
    BY <1>1, <2>1, <2>2 DEF StarterStep
<1>2. ASSUME NEW r \in Runs, SupervisorStep(r) PROVE OrderInv'
  <2>1. CASE Respawn(r)
    <3>1. NextRun(r) \in Runs /\ NextRun(r) # r
      BY <2>1, NextRunType DEF Respawn, IInv, ControlInv, LastRunStays
    <3>2. sup[NextRun(r)] = "idle"
      <4>1. PICK h \in Handlers, n \in 1..MaxRuns : r = <<h, n>>
        BY DEF Runs
      <4>2. NextRun(r) = <<h, n + 1>> /\ n + 1 \in 1..MaxRuns /\ n < n + 1
        BY <3>1, <4>1, ControllerAssumption DEF NextRun, Runs
      <4> QED
        BY <2>1, <4>1, <4>2 DEF Respawn, IInv, ControlInv, RunsInSequence
    <3>3. /\ UNCHANGED <<ctx, cancelled, subs, queue, published, handled>>
          /\ \A s \in Runs : sup'[s] = IF s = NextRun(r) THEN "setup" ELSE IF s = r THEN "done" ELSE sup[s]
      BY <2>1, <3>1 DEF Respawn, IInv, TypeOK
    <3> QED
      BY <3>2, <3>3, ControlKeepsOrder
  <2>2. CASE ~Respawn(r)
    <3>1. /\ UNCHANGED <<ctx, queue, published, handled>>
          /\ \A s \in Runs : /\ ~cancelled'[s] => ~cancelled[s]
                             /\ sup'[s] \in {"idle", "setup", "sub"} =>
                                    sup[s] \in {"idle", "setup", "sub"} /\ (s \in subs' => s \in subs)
      BY <1>2, <2>2 DEF SupervisorStep, SetupSucceeds, SetupFails, Subscribe, Park, SeeContextDone,
         SeeRunDone, SupervisorReturns, IInv, TypeOK
    <3> QED
      BY <3>1, ControlKeepsOrder
  <2> QED
    BY <2>1, <2>2
<1>3. ASSUME NEW r \in Runs, LoopStep(r) PROVE OrderInv'
  <2>1. CASE TakeMessage(r)
    BY <2>1, TakeKeepsOrder
  <2>2. CASE CallbackPublishes(r)
    <3>1. CASE bus = "open"
      BY <2>2, <3>1, PublishKeepsOrder DEF CallbackPublishes
    <3>2. CASE bus # "open"
      <4>1. UNCHANGED <<ctx, sup, cancelled, subs, queue, published, handled>>
        BY <2>2, <3>2 DEF CallbackPublishes
      <4> QED
        BY <4>1, ControlKeepsOrder
    <3> QED
      BY <3>1, <3>2
  <2>3. CASE ~TakeMessage(r) /\ ~CallbackPublishes(r)
    <3>1. /\ UNCHANGED <<ctx, subs, queue, published, handled>>
          /\ \A s \in Runs : /\ ~cancelled'[s] => ~cancelled[s]
                             /\ sup'[s] \in {"idle", "setup", "sub"} => sup[s] \in {"idle", "setup", "sub"}
      BY <1>3, <2>3 DEF LoopStep, BeginLoop, TakeContextDone, TakeChannelClosed, TakeInterrupt,
         CallbackReturns, CallbackSucceeds, CallbackFails, TearDown, IInv, TypeOK
    <3> QED
      BY <3>1, ControlKeepsOrder
  <2> QED
    BY <2>1, <2>2, <2>3
<1>4. CASE OthersPublish
  BY <1>4, PublishKeepsOrder DEF OthersPublish
<1> QED
  BY <1>1, <1>2, <1>3, <1>4 DEF Next

(* Until the user cancels, a handler is given each message at most once and *)
(* in the order of publication, for any number of runs and any buffer       *)
(* (controller.go:101-144, 176-179).                                        *)
THEOREM MessagesHandledInOrder == Spec => []HandledInOrder
<1>1. OrderInv => HandledInOrder
  BY DEF OrderInv
<1> QED
  BY <1>1, Invariance, InitOrder, StepKeepsOrder, PTL DEF Spec
==============================================================================
