------------------------------- MODULE Telegram -------------------------------
(***************************************************************************)
(* The telegram handler (handlers/telegram/telegram.go): goroutines of the  *)
(* bot turn the words of a text into commands, which pass a channel that    *)
(* all executions of the handler share; an error while it notifies a user   *)
(* ends the handler, and the controller starts it again with a new bot, or  *)
(* with none as long as none can be made.  The goroutines answer each word  *)
(* through whatever bot there is, and panic without one.                    *)
(***************************************************************************)
EXTENDS Integers, Sequences

CONSTANTS Texts,        \* texts that users send
          Words,        \* bound: devices named in a text
          AllowedUsers, \* number of users that are notified
          NotificationsCap,
          MaxFaults     \* bound: errors of the bot

VARIABLES
    phase,         \* of the handler
    bot,           \* h.bot is not nil
    told,          \* users that have the notification being sent
    received,      \* texts the bot has handed over
    waiting,       \* per text, its word whose command waits for the channel
    replying,      \* texts whose last word is being answered
    reach,         \* history: per text, how many words its goroutine handles
    notifications, \* the channel
    published,     \* history: commands published
    failures

texts == <<received, waiting, replying, reach>>
vars == <<phase, bot, told, texts, notifications, published, failures>>

Word(t, i) == [text |-> t, word |-> i]

TypeOK ==
    /\ phase \in {"ended", "running", "telling", "panic"} /\ bot \in BOOLEAN
    /\ told \in 0..AllowedUsers
    /\ received \subseteq Texts /\ waiting \in [Texts -> 0..Words]
    /\ replying \subseteq Texts /\ reach \in [Texts -> 0..Words]
    /\ notifications \in Seq([text : Texts, word : 1..Words]) /\ Len(notifications) <= NotificationsCap
    /\ failures \in 0..MaxFaults

Init ==
    /\ phase = "ended" /\ bot = FALSE /\ told = 0
    /\ received = {} /\ waiting = [t \in Texts |-> 0]
    /\ replying = {} /\ reach = [t \in Texts |-> Words]
    /\ notifications = <<>> /\ published = <<>> /\ failures = 0

Fails(ok) == IF ok THEN UNCHANGED failures ELSE failures < MaxFaults /\ failures' = failures + 1

(* Mutant: the channel is made by Setup. *)
StartWithNewChannel(ok) ==
    /\ phase = "ended" /\ Fails(ok)
    /\ phase' = IF ok THEN "running" ELSE "ended"
    /\ bot' = ok
    /\ notifications' = <<>>
    /\ UNCHANGED <<told, texts, published>>

(* Setup and the first timer event, which makes a bot or fails and leaves   *)
(* none.                                                                    *)
Start(ok) ==
    /\ phase = "ended" /\ Fails(ok)
    /\ phase' = IF ok THEN "running" ELSE "ended"
    /\ bot' = ok
    /\ UNCHANGED <<told, texts, notifications, published>>

-------------------------------------------------------------------------------
(* The bot, while it polls, hands each text of an allowed user to a         *)
(* goroutine of its own; ...                                                *)
Receives(t) ==
    /\ phase \in {"running", "telling"} /\ t \notin received
    /\ received' = received \cup {t} /\ waiting' = [waiting EXCEPT ![t] = 1]
    /\ UNCHANGED <<phase, bot, told, replying, reach, notifications, published, failures>>

(* ... execAction waits for the channel, also after the handler ended, ...  *)
ExecAction(t) ==
    /\ phase # "panic" /\ waiting[t] # 0 /\ t \notin replying
    /\ Len(notifications) < NotificationsCap
    /\ notifications' = Append(notifications, Word(t, waiting[t]))
    /\ waiting' = [waiting EXCEPT ![t] = IF @ < Words THEN @ + 1 ELSE 0]
    /\ replying' = replying \cup {t}
    /\ UNCHANGED <<phase, bot, told, received, reach, published, failures>>

(* ... the user is answered before the next word, or the goroutine panics   *)
(* since there is no bot: the words behind are lost, and the process ends   *)
(* unless the library recovers, ...                                         *)
Answers(t) ==
    /\ phase # "panic" /\ t \in replying
    /\ replying' = replying \ {t}
    /\ \/ bot /\ UNCHANGED <<phase, waiting, reach>>
       \/ /\ ~bot /\ phase' \in {phase, "panic"}
          /\ reach' = [reach EXCEPT ![t] = IF waiting[t] = 0 THEN Words ELSE waiting[t] - 1]
          /\ waiting' = [waiting EXCEPT ![t] = 0]
    /\ UNCHANGED <<bot, told, received, notifications, published, failures>>

(* ... and the handler publishes what comes out of it.                      *)
HandleChannelEvent ==
    /\ phase = "running" /\ notifications # <<>>
    /\ published' = Append(published, Head(notifications))
    /\ notifications' = Tail(notifications)
    /\ UNCHANGED <<phase, bot, told, texts, failures>>

(* A notification is sent to one user after the other. *)
HandleMessage ==
    /\ phase = "running" /\ phase' = "telling" /\ told' = 0
    /\ UNCHANGED <<bot, texts, notifications, published, failures>>

SendMessage(ok) ==
    /\ phase = "telling" /\ told < AllowedUsers /\ Fails(ok)
    /\ told' = IF ok THEN told + 1 ELSE told
    /\ phase' = IF ~ok THEN "ended" ELSE IF told' = AllowedUsers THEN "running" ELSE phase
    /\ UNCHANGED <<bot, texts, notifications, published>>

Works ==
    \/ \E ok \in BOOLEAN : Start(ok) \/ SendMessage(ok)
    \/ HandleChannelEvent
    \/ \E t \in Texts : ExecAction(t) \/ Answers(t)

Next == Works \/ HandleMessage \/ \E t \in Texts : Receives(t)

Spec == Init /\ [][Next]_vars
-------------------------------------------------------------------------------
(* Properties. *)

(* The commands of a text are published in the order of its words, each     *)
(* once, whatever other texts come between them.                            *)
PublishedInOrder ==
    \A k, l \in 1..Len(published) :
        k < l /\ published[k].text = published[l].text => published[k].word < published[l].word

(* A command that is not published is in the channel, or its goroutine      *)
(* waits for it, but for the words behind one that found no bot.            *)
NoneIsLost ==
    \A t \in received : \A i \in 1..reach[t] :
        \/ waiting[t] \in 1..i
        \/ \E k \in 1..Len(notifications) : notifications[k] = Word(t, i)
        \/ \E k \in 1..Len(published) : published[k] = Word(t, i)

(* Every device that a text names gets its command, once and in its order,  *)
(* although the handler ends and comes back and the channel is full         *)
(* meanwhile (telegram.go:52, 75).  The words behind one that is answered   *)
(* while no bot could be made are lost, and all of them when that ends the  *)
(* process (telegram.go:89, 126).                                           *)
EveryWordIsPublished ==
    /\ [](PublishedInOrder /\ NoneIsLost)
    /\ \A t \in Texts : (t \in received)
          ~> (phase = "panic" \/ \A i \in 1..reach[t] : \E k \in 1..Len(published) : published[k] = Word(t, i))
===============================================================================
