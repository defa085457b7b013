------------------------------ MODULE WifiService ------------------------------
(***************************************************************************)
(* The WIFI service (app/main_wifi.c), which carries out commands of CORE  *)
(* for devices of the Tuya cloud.  The message thread puts what arrives in *)
(* a queue under a mutex; main takes one command out, and keeps the mutex  *)
(* while it calls the cloud again and again.  A command is a number, in    *)
(* the order in which CORE sent them.                                      *)
(*                                                                         *)
(* A call of the cloud (call_API) is one step.  It may be answered, with   *)
(* success or with a refusal, be carried out without an answer, not        *)
(* arrive, hang in read for ever, or end the process; when the name of the *)
(* host is not found, the response is whatever the memory held, which may  *)
(* be an earlier response.  The watchdog is that of AwsWatchdog: a service *)
(* that leaves a ping unanswered for long is started again.                *)
(***************************************************************************)
EXTENDS Naturals, Sequences, FiniteSets, SequencesExt

CONSTANTS
    QueueSize,      \* QUEUE_SIZE
    MaxNumberRetry,
    RefetchAt,      \* the retry after which a new token is asked for
    MaxTokenTries,  \* a refresh ends when failedCount passes it
    MaxCommands,    \* bound on the commands of CORE
    MaxTroubles     \* bound on the calls that are not answered, and on errors of the broker

ASSUME WifiAssumption ==
    /\ QueueSize \in Nat \ {0} /\ MaxTokenTries \in Nat
    /\ RefetchAt \in Nat \ {0} /\ MaxNumberRetry \in Nat /\ RefetchAt < MaxNumberRetry
    /\ MaxCommands \in Nat /\ MaxTroubles \in Nat

VARIABLES
    bus,            \* what the broker holds for the service
    thread,         \* RUN_MQTT_LOCAL: reading, in on_message with a command, or ended
    inHand,         \* that command
    queue,          \* queue_received
    pc,             \* where main is
    held,           \* main has mutex_lock_t
    signalled,      \* dataUpdate_Queue was signalled since main waits for it
    current,        \* the command main carries out
    calls,          \* calls made for it
    accepted,       \* check_flag, for that command
    failedCount,    \* failures of the present refresh
    token,          \* access_token, as the cloud sees it
    old,            \* GetAccessTokenTime lies far enough back for a refresh
    pinged,         \* a ping waits for its answer
    \* History:
    sent,           \* commands sent by CORE
    outcome,        \* what became of them
    executed,       \* commands the cloud has carried out
    nameless,       \* commands during which the host was not found
    troubled,       \* a call for the command in hand was not answered as it should be
    refused,        \* the cloud refused that command though the token was good
    troubles

threadVars  == <<thread, inHand>>
mutexVars   == <<held, signalled>>
commandVars == <<current, calls, accepted>>
tokenVars   == <<failedCount, token, old>>
faultVars   == <<nameless, troubled, refused, troubles>>
vars == <<bus, threadVars, queue, pc, mutexVars, commandVars, tokenVars, pinged, sent, outcome,
          executed, faultVars>>

Commands == 1..MaxCommands
NoCommand == 0

TypeOK ==
    /\ bus \in Seq(Commands) /\ queue \in Seq(Commands) /\ Len(queue) <= QueueSize
    /\ thread \in {"reading", "arrived", "ended"}
    /\ inHand \in Commands \cup {NoCommand} /\ (inHand # NoCommand <=> thread = "arrived")
    /\ pc \in {"boot", "top", "waiting", "refresh", "send", "refetch", "hung"}
    /\ held \in BOOLEAN /\ (held <=> current # NoCommand)
    /\ signalled \in BOOLEAN /\ accepted \in BOOLEAN /\ old \in BOOLEAN /\ pinged \in BOOLEAN
    /\ current \in Commands \cup {NoCommand}
    /\ calls \in 0..(MaxNumberRetry + 1)
    /\ failedCount \in 0..MaxTokenTries
    /\ token \in {"none", "valid", "expired"}
    /\ sent \in 0..MaxCommands
    /\ outcome \in [Commands -> {"none", "waiting", "done", "abandoned", "lost"}]
    /\ executed \subseteq Commands /\ nameless \subseteq Commands
    /\ troubled \in BOOLEAN /\ refused \in BOOLEAN
    /\ troubles \in 0..MaxTroubles

Init ==
    /\ bus = <<>> /\ queue = <<>>
    /\ thread = "reading" /\ inHand = NoCommand
    /\ pc = "boot" /\ held = FALSE /\ signalled = FALSE
    /\ current = NoCommand /\ calls = 0 /\ accepted = FALSE
    /\ failedCount = 0 /\ token = "none" /\ old = FALSE
    /\ pinged = FALSE
    /\ sent = 0 /\ outcome = [c \in Commands |-> "none"]
    /\ executed = {}
    /\ nameless = {} /\ troubled = FALSE /\ refused = FALSE /\ troubles = 0

-----------------------------------------------------------------------------
(* The message thread *)

(* on_message, up to its call of pthread_mutex_lock. *)
Arrive ==
    /\ thread = "reading" /\ bus # <<>>
    /\ thread' = "arrived"
    /\ inHand' = Head(bus)
    /\ bus' = Tail(bus)
    /\ UNCHANGED <<queue, pc, mutexVars, commandVars, tokenVars, pinged, sent, outcome,
                   executed, faultVars>>

EnqueueFaulty ==       \* without pthread_cond_broadcast
    /\ thread = "arrived" /\ ~held /\ Len(queue) < QueueSize
    /\ thread' = "reading" /\ inHand' = NoCommand
    /\ queue' = Append(queue, inHand)
    /\ UNCHANGED <<bus, pc, mutexVars, commandVars, tokenVars, pinged, sent, outcome,
                   executed, faultVars>>

(* on_message with the mutex: a command that finds the queue full is dropped. *)
Enqueue ==
    /\ thread = "arrived" /\ ~held
    /\ thread' = "reading"
    /\ inHand' = NoCommand
    /\ IF Len(queue) < QueueSize
       THEN /\ queue' = Append(queue, inHand)
            /\ signalled' = TRUE
            /\ outcome' = outcome
       ELSE /\ UNCHANGED <<queue, signalled>>
            /\ outcome' = [outcome EXCEPT ![inHand] = "lost"]
    /\ UNCHANGED <<bus, pc, held, commandVars, tokenVars, pinged, sent, executed, faultVars>>

(* A ping is answered without the mutex. *)
AnswerPing ==
    /\ thread = "reading" /\ pinged
    /\ pinged' = FALSE
    /\ UNCHANGED <<bus, threadVars, queue, pc, mutexVars, commandVars, tokenVars, sent, outcome,
                   executed, faultVars>>

Trouble ==
    /\ troubles < MaxTroubles
    /\ troubles' = troubles + 1

(* mosquitto_loop fails: the thread ends, and nothing starts it again. *)
EndThread ==
    /\ thread = "reading"
    /\ thread' = "ended"
    /\ Trouble
    /\ UNCHANGED <<bus, inHand, queue, pc, mutexVars, commandVars, tokenVars, pinged, sent,
                   outcome, executed, nameless, troubled, refused>>

-----------------------------------------------------------------------------
(* The process ends: systemd starts it again, and what it had is lost. *)

Lost(commands) == [c \in Commands |-> IF c \in commands THEN "lost" ELSE outcome[c]]

StartAgain ==
    /\ outcome' = Lost(ToSet(bus) \cup ToSet(queue) \cup ({inHand, current} \ {NoCommand}))
    /\ bus' = <<>> /\ queue' = <<>>
    /\ thread' = "reading" /\ inHand' = NoCommand
    /\ pc' = "boot" /\ held' = FALSE /\ signalled' = FALSE
    /\ current' = NoCommand /\ calls' = 0 /\ accepted' = FALSE
    /\ failedCount' = 0 /\ token' = "none" /\ old' = FALSE
    /\ pinged' = FALSE
    /\ troubled' = FALSE /\ refused' = FALSE

(* The watchdog *)
Ping ==
    /\ ~pinged
    /\ pinged' = TRUE
    /\ UNCHANGED <<bus, threadVars, queue, pc, mutexVars, commandVars, tokenVars, sent, outcome,
                   executed, faultVars>>

RestartByWatchdog ==
    /\ pinged
    /\ StartAgain
    /\ UNCHANGED <<sent, executed, nameless, troubles>>

-----------------------------------------------------------------------------
(* The calls of the cloud, made in the step of main that waits for them.     *)

(* Something goes wrong with a call made for the current command. *)
GoesWrong ==
    /\ Trouble
    /\ troubled' = (troubled \/ current # NoCommand)
    /\ refused' = refused

(* read does not return. *)
Hang ==
    /\ pc \in {"boot", "refresh", "send", "refetch"}
    /\ GoesWrong
    /\ pc' = "hung"
    /\ UNCHANGED <<bus, threadVars, queue, mutexVars, commandVars, tokenVars, pinged, sent,
                   outcome, executed, nameless>>

(* write fails, and error() calls exit. *)
Die ==
    /\ pc \in {"boot", "refresh", "send", "refetch"}
    /\ Trouble
    /\ StartAgain
    /\ UNCHANGED <<sent, executed, nameless>>

(* get_access_token.  Without the host the response may be an earlier one, with
   the token of that time.                                                      *)
FetchOk ==
    \/ /\ token' = "valid"
       /\ UNCHANGED faultVars
    \/ /\ token # "none" /\ GoesWrong
       /\ nameless' = nameless \cup ({current} \ {NoCommand})
       /\ token' = token

(* get_access_token writes access_token before it looks for the refresh token: a
   response cut short leaves a good token, or a piece of one, and still fails.   *)
FetchFails ==
    /\ GoesWrong
    /\ token' \in {token, "valid", "expired"}
    /\ UNCHANGED nameless

(* send_commands: answered, or without the host with an earlier response. *)
SendOk ==
    \/ /\ token = "valid"
       /\ executed' = executed \cup {current}
       /\ UNCHANGED faultVars
    \/ /\ GoesWrong
       /\ nameless' = nameless \cup {current}
       /\ UNCHANGED executed

(* Refused for its token; refused although the token is good ("success": false, as
   for a device that is offline); or no answer that says success, when the cloud
   may have carried it out or not.                                               *)
SendFails ==
    \/ /\ token # "valid"
       /\ UNCHANGED <<executed, faultVars>>
    \/ /\ token = "valid"
       /\ refused' = TRUE
       /\ UNCHANGED <<executed, nameless, troubled, troubles>>
    \/ /\ GoesWrong
       /\ \/ UNCHANGED executed
          \/ token = "valid" /\ executed' = executed \cup {current}
       /\ UNCHANGED nameless

-----------------------------------------------------------------------------
(* main *)

Boot ==
    /\ pc = "boot"
    /\ \/ FetchOk /\ pc' = "top"
       \/ FetchFails /\ pc' = pc
    /\ UNCHANGED <<bus, threadVars, queue, mutexVars, commandVars, failedCount, old, pinged, sent,
                   outcome, executed>>

Forget ==
    /\ calls' = 0 /\ accepted' = FALSE /\ failedCount' = 0
    /\ troubled' = FALSE /\ refused' = FALSE

(* The top of the loop: an empty queue is waited for, and pthread_cond_wait gives
   up the mutex together with the check.  The counters of the last command are
   gone, each command has its own.                                               *)
WaitForCommand ==
    /\ pc = "top" /\ queue = <<>>
    /\ pc' = "waiting"
    /\ signalled' = FALSE
    /\ Forget
    /\ UNCHANGED <<bus, threadVars, queue, held, current, token, old, pinged, sent, outcome,
                   executed, nameless, troubles>>

Wake ==
    /\ pc = "waiting" /\ signalled
    /\ pc' = "top"
    /\ UNCHANGED <<bus, threadVars, queue, mutexVars, commandVars, tokenVars, pinged, sent,
                   outcome, executed, faultVars>>

TakeCommand ==
    /\ pc = "top" /\ queue # <<>>
    /\ current' = Head(queue)
    /\ queue' = Tail(queue)
    /\ held' = TRUE
    /\ Forget
    /\ pc' = IF old THEN "refresh" ELSE "send"
    /\ UNCHANGED <<bus, threadVars, signalled, token, old, pinged, sent, outcome, executed,
                   nameless, troubles>>

(* A token that is too old is replaced first.  After any failure the time of the
   token is only moved on by a minute, whether or not there is a new one.       *)
Refresh ==
    /\ pc = "refresh"
    /\ \/ /\ FetchOk
          /\ old' \in IF failedCount = 0 THEN {FALSE} ELSE BOOLEAN
          /\ pc' = "send" /\ UNCHANGED failedCount
       \/ /\ FetchFails
          /\ failedCount < MaxTokenTries
          /\ failedCount' = failedCount + 1
          /\ UNCHANGED <<pc, old>>
       \/ /\ FetchFails
          /\ failedCount = MaxTokenTries
          /\ old' \in BOOLEAN
          /\ pc' = "send" /\ UNCHANGED failedCount
    /\ UNCHANGED <<bus, threadVars, queue, mutexVars, commandVars, pinged, sent, outcome,
                   executed>>

EndFaulty(what) ==     \* keeps the mutex
    /\ outcome' = [outcome EXCEPT ![current] = what]
    /\ current' = NoCommand /\ held' = held /\ pc' = "top"

(* The end of a command, which gives up the mutex. *)
End(what) ==
    /\ outcome' = [outcome EXCEPT ![current] = what]
    /\ current' = NoCommand
    /\ held' = FALSE
    /\ pc' = "top"

RefetchDueFaulty == calls' = MaxNumberRetry + 1      \* after the last retry

RefetchDue == calls' = RefetchAt + 1
LastCall   == calls' = MaxNumberRetry + 1

ProceedFaulty ==       \* takes the last call as successful
    IF accepted' \/ LastCall THEN End("done")
    ELSE pc' = "send" /\ UNCHANGED <<outcome, current, held>>

Proceed ==
    IF accepted' THEN End("done")
    ELSE IF LastCall THEN End("abandoned")
    ELSE pc' = "send" /\ UNCHANGED <<outcome, current, held>>

Send ==
    /\ pc = "send"
    /\ calls' = calls + 1
    /\ \/ SendOk /\ accepted' = TRUE
       \/ SendFails /\ accepted' = FALSE
    /\ IF RefetchDue THEN pc' = "refetch" /\ UNCHANGED <<outcome, current, held>> ELSE Proceed
    /\ UNCHANGED <<bus, threadVars, queue, signalled, tokenVars, pinged, sent>>

(* After the third retry, successful or not, a new token; its result is not
   looked at.                                                                *)
Refetch ==
    /\ pc = "refetch"
    /\ FetchOk \/ FetchFails
    /\ UNCHANGED <<calls, accepted>>
    /\ Proceed
    /\ UNCHANGED <<bus, threadVars, queue, signalled, failedCount, old, pinged, sent, executed>>

-----------------------------------------------------------------------------
(* The environment *)

Command ==
    /\ sent < MaxCommands
    /\ sent' = sent + 1
    /\ bus' = Append(bus, sent')
    /\ outcome' = [outcome EXCEPT ![sent'] = "waiting"]
    /\ UNCHANGED <<threadVars, queue, pc, mutexVars, commandVars, tokenVars, pinged, executed,
                   faultVars>>

Age ==
    /\ ~old /\ pc # "boot"
    /\ old' = TRUE
    /\ UNCHANGED <<bus, threadVars, queue, pc, mutexVars, commandVars, failedCount, token, pinged,
                   sent, outcome, executed, faultVars>>

(* The cloud ends the life of a token; one that ends while a command is carried
   out for which a new token was fetched counts as trouble.                     *)
ExpireToken ==
    /\ token = "valid"
    /\ token' = "expired"
    /\ IF current # NoCommand /\ calls > RefetchAt /\ pc # "refetch" THEN GoesWrong
       ELSE UNCHANGED <<troubles, troubled, refused>>
    /\ UNCHANGED <<bus, threadVars, queue, pc, mutexVars, commandVars, failedCount, old, pinged,
                   sent, outcome, executed, nameless>>

Thread == Arrive \/ Enqueue \/ AnswerPing
Main   == Boot \/ WaitForCommand \/ Wake \/ TakeCommand \/ Refresh \/ Send \/ Refetch
Next   == \/ Thread \/ Main
          \/ EndThread \/ Hang \/ Die
          \/ Ping \/ RestartByWatchdog
          \/ Command \/ Age \/ ExpireToken

Spec == Init /\ [][Next]_vars

(* Both threads run, a call that does not hang returns, AWS keeps pinging and
   restarts a service that leaves a ping unanswered.  Nothing makes the cloud or
   its token good: Boot goes on until there is one.                             *)
FairSpec ==
    /\ Spec
    /\ WF_vars(Main)
    /\ WF_vars(Arrive) /\ SF_vars(Enqueue) /\ SF_vars(AnswerPing)
    /\ WF_vars(Ping) /\ WF_vars(RestartByWatchdog)

-----------------------------------------------------------------------------
(* Properties *)

(* A command is given up for a reason: a call made for it went wrong (unanswered,
   answered with an old response, or its new token expired again), or the cloud
   refused it although the token was good (send_commands, "success": false), and
   has not carried it out by another of its calls.  An expired token alone never
   makes the service give a command up (main, count == 3).                       *)
GivenUpForAReason ==
    [][\A c \in Commands :
          outcome[c] # "abandoned" /\ outcome'[c] = "abandoned"
             => troubled' \/ (refused' /\ c \notin executed')]_vars

(* A command that counts as done was carried out, unless the host was not found
   and the service read an earlier response in its place.                       *)
DoneIsExecuted == \A c \in Commands : outcome[c] = "done" => c \in executed \cup nameless

(* Every command of CORE comes to an end, unless main hangs in a call with it in
   hand or in the queue: a command that comes later is not kept waiting, as it
   stops the message thread and with it the answers to the watchdog.            *)
EveryCommandEnds ==
    \A c \in Commands :
        outcome[c] = "waiting" ~> \/ outcome[c] # "waiting"
                                  \/ pc = "hung" /\ c \in {current} \cup ToSet(queue)
==============================================================================
