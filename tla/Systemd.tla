------------------------------- MODULE Systemd -------------------------------
(***************************************************************************)
(* The systemd handler (handlers/systemd/systemd.go): a request to start,   *)
(* to stop or to look at a service is executed by calls over D-Bus and then *)
(* replied to.  Requests are for one service, and may come at any time.     *)
(* systemd has a state of the service and at most one job for it: a call    *)
(* puts a job in the place of the one there was, and returns before it runs.*)
(***************************************************************************)
VARIABLES
    step,       \* of the handler: "setup", "idle", "found", "read", "called", "ended"
    connection, \* the one to D-Bus is open
    command,    \* local of HandleMessage: action of the request
    activeState,  \* local of HandleMessage: what was read; then the status to reply
    asked,      \* history: the last request replied to, but for looking
    unit, job,  \* of systemd
    excused     \* history: since the state was read for it, something else than the handler
                \* changed the service, a call failed, or a job was not noticed

vars == <<step, connection, command, activeState, asked, unit, job, excused>>
serviceVars == <<unit, job>>

Actions == {"SET", "RESET", "GET"}
States == {"inactive", "activating", "active", "deactivating", "failed"}

TypeOK ==
    /\ step \in {"setup", "idle", "found", "read", "called", "ended"}
    /\ connection \in BOOLEAN
    /\ command \in Actions /\ activeState \in States \cup {"unknown"}
    /\ asked \in Actions
    /\ unit \in States /\ job \in {"none", "start", "stop"}
    /\ excused \in BOOLEAN

Init ==
    /\ step = "setup" /\ connection = FALSE /\ command = "GET" /\ activeState = "unknown"
    /\ asked = "GET"
    /\ unit \in {"inactive", "active", "failed"} /\ job = "none"
    /\ excused = FALSE

-------------------------------------------------------------------------------
(* systemd. *)

(* The next thing it does, if it need not wait; stopping comes before a     *)
(* start that is asked for meanwhile.                                       *)
JobRuns ==
    /\ \/ unit = "deactivating" /\ unit' = "inactive" /\ job' = (IF job = "stop" THEN "none" ELSE job)
       \/ unit = "activating" /\ job = "start" /\ unit' = "active" /\ job' = "none"
       \/ unit \in {"inactive", "failed"} /\ job = "start" /\ unit' = "activating" /\ UNCHANGED job
       \/ unit \in {"active", "activating"} /\ job = "stop" /\ unit' = "deactivating" /\ UNCHANGED job
       \/ <<unit, job>> \in ({"active"} \X {"start"}) \cup ({"inactive", "failed"} \X {"stop"})
          /\ UNCHANGED unit /\ job' = "none"
    /\ UNCHANGED <<step, connection, command, activeState, asked, excused>>

(* A service ends by itself, or does not start.                             *)
ServiceEnds(s) ==
    /\ unit \in {"active", "activating"} /\ unit' = s /\ job' = "none"
    /\ excused' = TRUE
    /\ UNCHANGED <<step, connection, command, activeState, asked>>

(* Others start and stop it too. *)
OthersCall(j) ==
    /\ job' = j /\ excused' = TRUE
    /\ UNCHANGED <<step, connection, command, activeState, asked, unit>>

ConnectionBreaks ==
    /\ connection /\ connection' = FALSE
    /\ UNCHANGED <<step, command, activeState, asked, serviceVars, excused>>

-------------------------------------------------------------------------------
(* The handler. *)

(* An error makes the Controller try again: nothing has changed.  No later  *)
(* error is returned to it, so that a connection that breaks stays broken.  *)
Setup ==
    /\ step = "setup" /\ step' = "idle" /\ connection' = TRUE
    /\ UNCHANGED <<command, activeState, asked, serviceVars, excused>>

(* HandleMessage, in three calls.  A service that systemd does not find, or *)
(* not in time, is not replied about: nothing happens; ...                  *)
GetUnit(action) ==
    /\ step = "idle" /\ connection
    /\ step' = "found" /\ command' = action
    /\ UNCHANGED <<connection, activeState, asked, serviceVars, excused>>

(* Mutant: only an active service is stopped. *)
JobForExact(action, state) ==
    CASE action = "SET" /\ state # "active" -> "start"
      [] action = "RESET" /\ state = "active" -> "stop"
      [] OTHER -> "none"

(* The call a request needs in a state of the service, if any. *)
JobFor(action, state) ==
    CASE action = "SET" /\ state # "active" -> "start"
      [] action = "RESET" /\ state \notin {"inactive", "failed"} -> "stop"
      [] OTHER -> "none"

(* A job that has not begun, of which the state shows nothing. *)
Unnoticed ==
    <<unit, job>> \in ({"inactive", "failed"} \X {"start"}) \cup ({"active"} \X {"stop"})

(* ... without an answer the state is unknown; ...                          *)
GetActiveState(ok) ==
    /\ step = "found" /\ step' = "read" /\ (ok => connection)
    /\ activeState' = IF ok THEN unit ELSE "unknown"
    /\ excused' = IF command = "GET" THEN excused ELSE ~ok \/ Unnoticed
    /\ UNCHANGED <<connection, command, asked, serviceVars>>

(* ... and whether Start or Stop returns an error, having put its job or    *)
(* not, does not matter for the status in the reply.                        *)
Call(ok, done) ==
    LET needed == JobFor(command, activeState) IN
    /\ step = "read" /\ step' = "called" /\ (ok => done) /\ (done => connection)
    /\ needed # "none" /\ job' = (IF done THEN needed ELSE job)
    /\ activeState' = IF needed = "start" THEN "active" ELSE "inactive"
    /\ excused' = (excused \/ ~ok)
    /\ UNCHANGED <<connection, command, asked, unit>>

NoCall ==
    /\ step = "read" /\ step' = "called" /\ JobFor(command, activeState) = "none"
    /\ UNCHANGED <<connection, command, activeState, asked, serviceVars, excused>>

Reply ==
    /\ step = "called" /\ step' = "idle"
    /\ asked' = (IF command = "GET" THEN asked ELSE command) /\ command' = "GET" /\ activeState' = "unknown"
    /\ UNCHANGED <<connection, serviceVars, excused>>

Teardown ==
    /\ step = "idle" /\ step' = "ended" /\ connection' = FALSE
    /\ UNCHANGED <<command, activeState, asked, serviceVars, excused>>

Answers ==
    \/ \E ok \in BOOLEAN : GetActiveState(ok)
    \/ \E ok, done \in BOOLEAN : Call(ok, done)
    \/ NoCall \/ Reply

Next ==
    \/ JobRuns \/ ConnectionBreaks \/ Setup \/ Answers \/ Teardown
    \/ \E s \in {"inactive", "failed"} : ServiceEnds(s)
    \/ \E j \in {"start", "stop"} : OthersCall(j)
    \/ \E action \in Actions : GetUnit(action)

Spec == Init /\ [][Next]_vars
-------------------------------------------------------------------------------
(* Properties. *)

(* What a request asks for is done, or is a job that is still to run.       *)
Underway(action) ==
    \/ action = "SET" /\ (job = "start" \/ (unit = "active" /\ job = "none"))
    \/ action = "RESET" /\ (job = "stop" \/ (unit \in {"inactive", "failed"} /\ job = "none"))

(* The last request to start or to stop a service wins, also over one that  *)
(* is being started or stopped, if its calls were answered, no one else     *)
(* interferes, and no job that had not begun was overlooked: once it was    *)
(* replied to it is what systemd does or has done, and the job of none      *)
(* before it is left to undo it (systemd.go:80-97).                         *)
LastRequestWins ==
    /\ [](step = "idle" /\ asked # "GET" /\ ~excused => Underway(asked))
    /\ (asked = "SET" /\ ~excused) ~> (unit = "active" \/ asked # "SET" \/ excused)
    /\ (asked = "RESET" /\ ~excused) ~>
          (unit \in {"inactive", "failed"} \/ asked # "RESET" \/ excused)
===============================================================================
