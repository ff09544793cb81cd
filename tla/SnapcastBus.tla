------------------------------ MODULE SnapcastBus ------------------------------
(***************************************************************************)
(* The volume of a Snapcast client as two devices, mute and percentage       *)
(* (handlers/io/bus/snapcast).  Three goroutines meet here: the handler's,   *)
(* which commands the server and announces its own commands; the loop that   *)
(* looks for new clients; the callback of the RPC client (a library), which  *)
(* takes the server's notifications one by one, in order, as long as the     *)
(* connection lasts.                                                         *)
(*                                                                           *)
(* own.known: the client was found; own.notes: notifications under way;      *)
(* own.loop, own.callback: ids that goroutine has still to announce.         *)
(***************************************************************************)
EXTENDS Devices

CONSTANTS Mute, Volume,       \* the two devices of the client
          MaxServerEvents     \* bound: changes and faults of the server

ASSUME SnapcastAssumption ==
    /\ Mute \in Outputs /\ Volume \in Levels
    /\ MaxServerEvents \in 0..MaxEvents

ClientDevices == {Mute, Volume}

SnapcastInitialize ==
    /\ status' = [d \in Devs |-> Unset]
    /\ own' = [known |-> FALSE, notes |-> <<>>, loop |-> <<>>, callback |-> <<>>]

(* Device: both devices of a client are there once the client was found. *)
SnapcastKnows(d) == d \in ClientDevices /\ own.known

WithVolume(f, from) == [f EXCEPT ![Mute] = from[Mute], ![Volume] = from[Volume]]

(* Bound: percentages stay within 0..MaxLevel. *)
Within(v) == IF v < 0 THEN 0 ELSE IF v > MaxLevel THEN MaxLevel ELSE v

(* A value that is already set is not set again, except by Toggle and       *)
(* AddValue.                                                                *)
SnapcastCall ==
    /\ Turn("snapcast")
    /\ LET c == Head(todo)
           v == Within(Result(status[target], c)) IN
       IF c.op \in {"switch", "set"} /\ v = status[target]
       THEN Instead(<<>>) /\ UNCHANGED status
       ELSE /\ status' = [status EXCEPT ![target] = v]
            /\ Instead(<<Call("request", 0), Call("notify", 0)>>)
    /\ UNCHANGED <<confVars, opened, hw, own, worker, pend, changes, phase, target, reported, commands, events>>

(* request: connects if there is no client, and once more after a call that *)
(* failed; the notifications of a connection that was left are lost.  It    *)
(* takes the lock, so that two requests do not overlap.                     *)
OpenedAfter(ok) == {opened \cup {"snapcast"}} \cup IF ok THEN {} ELSE {opened \ {"snapcast"}}
AfterRequest(ok, left) == IF ok /\ ~left THEN own ELSE [own EXCEPT !.notes = <<>>]
Fails(ok, left) ==
    IF ok /\ ~left THEN UNCHANGED events ELSE events < MaxServerEvents /\ events' = events + 1

(* SetClientVolume sends the volume as it is now; its error is ignored.     *)
SnapcastRequests(ok, left) ==
    /\ Works("snapcast") /\ At("request")
    /\ own' = AfterRequest(ok, left) /\ opened' \in OpenedAfter(ok)
    /\ hw' = IF ok THEN WithVolume(hw, status) ELSE hw
    /\ Instead(<<>>) /\ Fails(ok, left)
    /\ UNCHANGED <<confVars, status, worker, pend, changes, phase, target, reported, commands>>

SnapcastNotifies ==
    /\ Works("snapcast") /\ At("notify") /\ CanSend
    /\ pend' = Append(pend, target)
    /\ Instead(<<>>)
    /\ UNCHANGED <<confVars, opened, status, hw, own, worker, changes, phase, target, reported, commands, events>>

(* The loop: a client that is known already keeps the volume it has.        *)
SnapcastPolls(ok, left) ==
    /\ Works("snapcast") /\ own.loop = <<>>
    /\ opened' \in OpenedAfter(ok)
    /\ LET new == ok /\ ~own.known
           asked == AfterRequest(ok, left) IN
       /\ own' = IF new THEN [asked EXCEPT !.known = TRUE, !.loop = <<Mute, Volume>>] ELSE asked
       /\ status' = IF new THEN WithVolume(status, hw) ELSE status
    /\ Fails(ok, left)
    /\ UNCHANGED <<confVars, hw, worker, pend, changes, handlerVars>>

LoopAnnounces ==
    /\ Works("snapcast") /\ own.loop # <<>> /\ CanSend
    /\ pend' = Append(pend, Head(own.loop))
    /\ own' = [own EXCEPT !.loop = Tail(@)]
    /\ UNCHANGED <<confVars, opened, status, hw, worker, changes, handlerVars, events>>

(* Somebody changes the volume at the server, which notifies its clients.   *)
ServerChanges(d, v) ==
    /\ Works("snapcast") /\ d \in ClientDevices /\ v # hw[d] /\ events < MaxServerEvents
    /\ LET new == [hw EXCEPT ![d] = v] IN
       /\ hw' = new
       /\ own' = IF "snapcast" \in opened
                 THEN [own EXCEPT !.notes = Append(@, [mute |-> new[Mute], percent |-> new[Volume]])] ELSE own
    /\ events' = events + 1
    /\ UNCHANGED <<confVars, opened, status, worker, pend, changes, handlerVars>>

(* Client.OnVolumeChanged and Client.OnConnect store the client's volume,   *)
(* which may be older than what was asked for meanwhile.                    *)
Notification ==
    /\ Works("snapcast") /\ own.notes # <<>> /\ own.callback = <<>>
    /\ LET n == Head(own.notes) IN
       status' = [status EXCEPT ![Mute] = n.mute, ![Volume] = n.percent]
    /\ own' = [own EXCEPT !.notes = Tail(@), !.known = TRUE, !.callback = <<Mute, Volume>>]
    /\ UNCHANGED <<confVars, opened, hw, worker, pend, changes, handlerVars, events>>

CallbackAnnounces ==
    /\ Works("snapcast") /\ own.callback # <<>> /\ CanSend
    /\ pend' = Append(pend, Head(own.callback))
    /\ own' = [own EXCEPT !.callback = Tail(@)]
    /\ UNCHANGED <<confVars, opened, status, hw, worker, changes, handlerVars, events>>
================================================================================
