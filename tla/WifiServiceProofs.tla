--------------------------- MODULE WifiServiceProofs ---------------------------
(* Proofs about WifiService: its types; that a command is only given up when a
   call for it went wrong or the cloud refused it with a good token, and that one
   which counts as done was carried out; that commands end in their order and
   once; and that none is slept over, for every size of the queue and every
   number of retries that leaves one after the new token.                      *)
EXTENDS WifiService, TLAPS

(* Where main stands: it has a command exactly in the steps that call the cloud
   for one, and no call is made past the last.                                 *)
StepInv ==
    /\ pc \in {"boot", "top", "waiting"} => current = NoCommand
    /\ pc \in {"refresh", "send", "refetch"} => current # NoCommand
    /\ pc = "refresh" => calls = 0
    /\ pc = "send" => calls <= MaxNumberRetry
    /\ pc = "refetch" => calls = RefetchAt + 1

(* A command that is tried again after the new token was asked for has that token,
   or had a call that went wrong.                                                 *)
TokenInv == pc = "send" /\ calls > RefetchAt => token = "valid" \/ troubled

(* Between the call that the cloud accepted and the end of the command there is at
   most the request for a new token.                                              *)
AcceptedInv ==
    pc = "refetch" /\ accepted => current \in executed \cup nameless

WifiInv == TypeOK /\ StepInv /\ TokenInv /\ AcceptedInv /\ DoneIsExecuted

LEMMA InitInv == Init => WifiInv
<1> SUFFICES ASSUME Init PROVE WifiInv
  OBVIOUS
<1> USE WifiAssumption
<1>1. held <=> current # NoCommand
  BY DEF Init
<1>2. bus \in Seq(Commands) /\ queue \in Seq(Commands) /\ Len(queue) <= QueueSize
  BY DEF Init
<1>3. calls \in 0..(MaxNumberRetry + 1) /\ failedCount \in 0..MaxTokenTries
      /\ sent \in 0..MaxCommands /\ troubles \in 0..MaxTroubles
  BY DEF Init
<1>4. TypeOK
  BY <1>1, <1>2, <1>3 DEF Init, TypeOK
<1>5. StepInv /\ TokenInv /\ AcceptedInv
  BY DEF Init, StepInv, TokenInv, AcceptedInv
<1>6. DoneIsExecuted
  BY DEF Init, DoneIsExecuted
<1> QED
  BY <1>4, <1>5, <1>6 DEF WifiInv

-----------------------------------------------------------------------------
(* What goes wrong is remembered, and stays in its bounds. *)
LEMMA TroubleKept ==
    ASSUME WifiInv, GoesWrong
    PROVE  /\ troubles' \in 0..MaxTroubles
           /\ troubled' \in BOOLEAN /\ (troubled => troubled')
           /\ refused' \in BOOLEAN
           /\ current # NoCommand => troubled'
BY WifiAssumption DEF GoesWrong, Trouble, WifiInv, TypeOK, Commands, NoCommand

LEMMA FetchKeeps ==
    ASSUME WifiInv, FetchOk \/ FetchFails
    PROVE  /\ token' \in {"none", "valid", "expired"}
           /\ troubles' \in 0..MaxTroubles
           /\ troubled' \in BOOLEAN /\ (troubled => troubled')
           /\ nameless' \subseteq Commands /\ nameless \subseteq nameless'
           /\ refused' \in BOOLEAN
           /\ current # NoCommand => token' = "valid" \/ troubled'
<1>1. CASE UNCHANGED faultVars
  BY <1>1, TroubleKept DEF FetchOk, FetchFails, faultVars, WifiInv, TypeOK
<1>2. CASE GoesWrong
  <2>1. nameless' \in {nameless, nameless \cup ({current} \ {NoCommand})}
    BY <1>2 DEF FetchOk, FetchFails, faultVars
  <2>2. token' = token \/ token' \in {"valid", "expired"}
    BY <1>2 DEF FetchOk, FetchFails, faultVars
  <2> QED
    BY <1>2, <2>1, <2>2, TroubleKept DEF WifiInv, TypeOK
<1> QED
  BY <1>1, <1>2 DEF FetchOk, FetchFails

LEMMA SendKeeps ==
    ASSUME WifiInv, current \in Commands, SendOk \/ SendFails
    PROVE  /\ troubles' \in 0..MaxTroubles
           /\ troubled' \in BOOLEAN /\ (troubled => troubled')
           /\ nameless' \subseteq Commands /\ nameless \subseteq nameless'
           /\ executed' \subseteq Commands /\ executed \subseteq executed'
           /\ SendOk => current \in executed' \cup nameless'
           /\ refused' \in BOOLEAN
           /\ SendFails => token # "valid" \/ troubled' \/ refused'
<1>1. current # NoCommand
  BY DEF Commands, NoCommand
<1>2. CASE SendOk
  BY <1>1, <1>2, TroubleKept DEF SendOk, SendFails, faultVars, WifiInv, TypeOK
<1>3. CASE SendFails
  BY <1>1, <1>3, TroubleKept DEF SendOk, SendFails, faultVars, WifiInv, TypeOK
<1> QED
  BY <1>2, <1>3

(* A process that starts again has nothing to keep. *)
LEMMA StartAgainKeeps ==
    ASSUME WifiInv, StartAgain, UNCHANGED <<sent, executed, nameless>>,
           troubles' \in 0..MaxTroubles
    PROVE  WifiInv'
<1> USE WifiAssumption
<1>1. /\ outcome' \in [Commands -> {"none", "waiting", "done", "abandoned", "lost"}]
      /\ \A c \in Commands : outcome'[c] \in {outcome[c], "lost"}
  BY DEF StartAgain, Lost, WifiInv, TypeOK
<1>2. TypeOK'
  <2>1. bus' \in Seq(Commands) /\ queue' \in Seq(Commands) /\ Len(queue') <= QueueSize
    BY DEF StartAgain
  <2>2. held' <=> current' # NoCommand
    BY DEF StartAgain
  <2>3. calls' \in 0..(MaxNumberRetry + 1) /\ failedCount' \in 0..MaxTokenTries
    BY DEF StartAgain
  <2> QED
    BY <1>1, <2>1, <2>2, <2>3 DEF StartAgain, WifiInv, TypeOK
<1>3. StepInv' /\ TokenInv' /\ AcceptedInv'
  BY DEF StartAgain, StepInv, TokenInv, AcceptedInv
<1>4. DoneIsExecuted'
  BY <1>1 DEF WifiInv, DoneIsExecuted
<1> QED
  BY <1>2, <1>3, <1>4 DEF WifiInv

-----------------------------------------------------------------------------
(* The message thread and the environment leave alone what main has in hand. *)

LEMMA ThreadInv ==
    ASSUME WifiInv, Arrive \/ Enqueue \/ AnswerPing \/ EndThread
    PROVE  WifiInv'
<1> USE WifiAssumption
<1>1. CASE Arrive
  <2>1. inHand' \in Commands /\ bus' \in Seq(Commands)
    BY <1>1 DEF Arrive, WifiInv, TypeOK
  <2>2. TypeOK'
    BY <1>1, <2>1 DEF Arrive, WifiInv, TypeOK, Commands, NoCommand, mutexVars, commandVars,
                      tokenVars, faultVars
  <2>3. StepInv' /\ TokenInv' /\ AcceptedInv'
    BY <1>1 DEF Arrive, WifiInv, StepInv, TokenInv, AcceptedInv, commandVars, tokenVars, faultVars
  <2>4. DoneIsExecuted'
    BY <1>1 DEF Arrive, WifiInv, DoneIsExecuted, faultVars
  <2> QED
    BY <2>2, <2>3, <2>4 DEF WifiInv
<1>2. CASE Enqueue
  <2>1. inHand \in Commands
    BY <1>2 DEF Enqueue, WifiInv, TypeOK
  <2>2. queue' \in Seq(Commands) /\ Len(queue') <= QueueSize
    <3>1. queue \in Seq(Commands) /\ Len(queue) <= QueueSize /\ Len(queue) \in Nat
      BY DEF WifiInv, TypeOK
    <3>2. queue' = queue \/ (Len(queue) < QueueSize /\ queue' = Append(queue, inHand))
      BY <1>2 DEF Enqueue
    <3> QED BY <2>1, <3>1, <3>2
  <2>3. /\ outcome' \in [Commands -> {"none", "waiting", "done", "abandoned", "lost"}]
        /\ \A c \in Commands : outcome'[c] \in {outcome[c], "lost"}
    <3>1. outcome' = outcome \/ outcome' = [outcome EXCEPT ![inHand] = "lost"]
      BY <1>2 DEF Enqueue
    <3>2. outcome \in [Commands -> {"none", "waiting", "done", "abandoned", "lost"}]
      BY DEF WifiInv, TypeOK
    <3> QED BY <2>1, <3>1, <3>2
  <2>4. TypeOK'
    BY <1>2, <2>2, <2>3 DEF Enqueue, WifiInv, TypeOK, NoCommand, commandVars, tokenVars, faultVars
  <2>5. StepInv' /\ TokenInv' /\ AcceptedInv'
    BY <1>2 DEF Enqueue, WifiInv, StepInv, TokenInv, AcceptedInv, commandVars, tokenVars, faultVars
  <2>6. DoneIsExecuted'
    BY <1>2, <2>3 DEF Enqueue, WifiInv, DoneIsExecuted, faultVars
  <2> QED
    BY <2>4, <2>5, <2>6 DEF WifiInv
<1>3. CASE AnswerPing
  <2>1. TypeOK'
    BY <1>3 DEF AnswerPing, WifiInv, TypeOK, threadVars, mutexVars, commandVars, tokenVars,
                 faultVars
  <2>2. StepInv' /\ TokenInv' /\ AcceptedInv'
    BY <1>3 DEF AnswerPing, WifiInv, StepInv, TokenInv, AcceptedInv, commandVars, tokenVars, faultVars
  <2>3. DoneIsExecuted'
    BY <1>3 DEF AnswerPing, WifiInv, DoneIsExecuted, commandVars, tokenVars, faultVars
  <2> QED
    BY <2>1, <2>2, <2>3 DEF WifiInv
<1>4. CASE EndThread
  <2>1. TypeOK'
    BY <1>4 DEF EndThread, Trouble, WifiInv, TypeOK, mutexVars, commandVars, tokenVars
  <2>2. StepInv' /\ TokenInv' /\ AcceptedInv'
    BY <1>4 DEF EndThread, Trouble, WifiInv, StepInv, TokenInv, AcceptedInv, commandVars, tokenVars
  <2>3. DoneIsExecuted'
    BY <1>4 DEF EndThread, Trouble, WifiInv, DoneIsExecuted, commandVars, tokenVars
  <2> QED
    BY <2>1, <2>2, <2>3 DEF WifiInv
<1> QED
  BY <1>1, <1>2, <1>3, <1>4

LEMMA EnvironmentInv ==
    ASSUME WifiInv, Ping \/ RestartByWatchdog \/ Command \/ Age \/ ExpireToken
    PROVE  WifiInv'
<1> USE WifiAssumption
<1>1. CASE Ping
  <2>1. TypeOK'
    BY <1>1 DEF Ping, WifiInv, TypeOK, threadVars, mutexVars, commandVars, tokenVars, faultVars
  <2>2. StepInv' /\ TokenInv' /\ AcceptedInv'
    BY <1>1 DEF Ping, WifiInv, StepInv, TokenInv, AcceptedInv, commandVars, tokenVars, faultVars
  <2>3. DoneIsExecuted'
    BY <1>1 DEF Ping, WifiInv, DoneIsExecuted, commandVars, tokenVars, faultVars
  <2> QED
    BY <2>1, <2>2, <2>3 DEF WifiInv
<1>2. CASE RestartByWatchdog
  BY <1>2, StartAgainKeeps DEF RestartByWatchdog, faultVars, WifiInv, TypeOK
<1>3. CASE Command
  <2>1. sent' \in Commands /\ sent' \in 0..MaxCommands
    BY <1>3 DEF Command, WifiInv, TypeOK, Commands
  <2>2. /\ outcome' \in [Commands -> {"none", "waiting", "done", "abandoned", "lost"}]
        /\ \A c \in Commands : outcome'[c] \in {outcome[c], "waiting"}
    BY <1>3, <2>1 DEF Command, WifiInv, TypeOK
  <2>3. TypeOK'
    BY <1>3, <2>1, <2>2 DEF Command, WifiInv, TypeOK, threadVars, mutexVars, commandVars,
                            tokenVars, faultVars
  <2>4. StepInv' /\ TokenInv' /\ AcceptedInv'
    BY <1>3 DEF Command, WifiInv, StepInv, TokenInv, AcceptedInv, commandVars, tokenVars, faultVars
  <2>5. DoneIsExecuted'
    BY <1>3, <2>2 DEF Command, WifiInv, DoneIsExecuted, faultVars
  <2> QED
    BY <2>3, <2>4, <2>5 DEF WifiInv
<1>4. CASE Age
  <2>1. TypeOK'
    BY <1>4 DEF Age, WifiInv, TypeOK, threadVars, mutexVars, commandVars, faultVars
  <2>2. StepInv' /\ TokenInv' /\ AcceptedInv'
    BY <1>4 DEF Age, WifiInv, StepInv, TokenInv, AcceptedInv, commandVars, faultVars
  <2>3. DoneIsExecuted'
    BY <1>4 DEF Age, WifiInv, DoneIsExecuted, commandVars, faultVars
  <2> QED
    BY <2>1, <2>2, <2>3 DEF WifiInv
<1>5. CASE ExpireToken
  <2>1. /\ troubles' \in 0..MaxTroubles
        /\ troubled' \in BOOLEAN /\ (troubled => troubled')
        /\ refused' \in BOOLEAN
        /\ pc = "send" /\ calls > RefetchAt => troubled'
    BY <1>5, TroubleKept DEF ExpireToken, WifiInv, TypeOK, StepInv
  <2>2. TypeOK'
    BY <1>5, <2>1 DEF ExpireToken, WifiInv, TypeOK, threadVars, mutexVars, commandVars
  <2> QED
    BY <1>5, <2>1, <2>2 DEF ExpireToken, WifiInv, StepInv, TokenInv, AcceptedInv,
                            DoneIsExecuted, commandVars
<1> QED
  BY <1>1, <1>2, <1>3, <1>4, <1>5

LEMMA BadCallInv ==
    ASSUME WifiInv, Hang \/ Die
    PROVE  WifiInv'
<1>1. CASE Hang
  <2>1. TypeOK'
    BY <1>1, TroubleKept DEF Hang, WifiInv, TypeOK, threadVars, mutexVars, commandVars, tokenVars
  <2> QED
    BY <1>1, <2>1, TroubleKept DEF Hang, WifiInv, StepInv, TokenInv, AcceptedInv,
                                   DoneIsExecuted, commandVars
<1>2. CASE Die
  BY <1>2, WifiAssumption, StartAgainKeeps DEF Die, Trouble, WifiInv, TypeOK
<1> QED
  BY <1>1, <1>2

-----------------------------------------------------------------------------
(* main *)

LEMMA LoopInv ==
    ASSUME WifiInv, Boot \/ WaitForCommand \/ Wake \/ TakeCommand \/ Refresh
    PROVE  WifiInv'
<1> USE WifiAssumption
<1>1. CASE Boot
  <2>1. TypeOK'
    BY <1>1, FetchKeeps DEF Boot, WifiInv, TypeOK, threadVars, mutexVars, commandVars
  <2> QED
    BY <1>1, <2>1, FetchKeeps DEF Boot, WifiInv, StepInv, TokenInv, AcceptedInv,
                                  DoneIsExecuted, commandVars
<1>2. CASE WaitForCommand
  <2>1. calls' \in 0..(MaxNumberRetry + 1) /\ failedCount' \in 0..MaxTokenTries
    BY <1>2 DEF WaitForCommand, Forget
  <2>2. TypeOK'
    BY <1>2, <2>1 DEF WaitForCommand, Forget, WifiInv, TypeOK, threadVars
  <2> QED
    BY <1>2, <2>2 DEF WaitForCommand, Forget, WifiInv, StepInv, TokenInv, AcceptedInv,
                      DoneIsExecuted
<1>3. CASE Wake
  BY <1>3 DEF Wake, WifiInv, TypeOK, StepInv, TokenInv, AcceptedInv,
              DoneIsExecuted, threadVars, mutexVars, commandVars, tokenVars, faultVars
<1>4. CASE TakeCommand
  <2>1. /\ current' \in Commands /\ current' # NoCommand
        /\ queue' \in Seq(Commands) /\ Len(queue') <= QueueSize
    BY <1>4 DEF TakeCommand, Forget, WifiInv, TypeOK, Commands, NoCommand
  <2>2. TypeOK'
    <3>1. held' <=> current' # NoCommand
      BY <1>4, <2>1 DEF TakeCommand, Forget
    <3>2. calls' \in 0..(MaxNumberRetry + 1) /\ failedCount' \in 0..MaxTokenTries
      BY <1>4 DEF TakeCommand, Forget
    <3> QED
      BY <1>4, <2>1, <3>1, <3>2 DEF TakeCommand, Forget, WifiInv, TypeOK, threadVars, faultVars
  <2> QED
    BY <1>4, <2>1, <2>2 DEF TakeCommand, Forget, WifiInv, StepInv, TokenInv, AcceptedInv,
                            DoneIsExecuted, faultVars
<1>5. CASE Refresh
  <2>1. /\ failedCount' \in 0..MaxTokenTries /\ old' \in BOOLEAN
        /\ pc' \in {"refresh", "send"}
        /\ FetchOk \/ FetchFails
    <3>1. old' \in BOOLEAN
      <4>1. old \in BOOLEAN
        BY DEF WifiInv, TypeOK
      <4>2. old' \in BOOLEAN \/ old' = FALSE \/ old' = old
        BY <1>5, Zenon DEF Refresh
      <4> QED
        BY <4>1, <4>2
    <3>2. failedCount' \in 0..MaxTokenTries
      <4>1. failedCount \in 0..MaxTokenTries
        BY DEF WifiInv, TypeOK
      <4>2. \/ failedCount' = failedCount
            \/ failedCount < MaxTokenTries /\ failedCount' = failedCount + 1
        BY <1>5, Zenon DEF Refresh
      <4> QED
        BY <4>1, <4>2
    <3> QED
      BY <1>5, <3>1, <3>2 DEF Refresh
  <2>2. TypeOK'
    BY <1>5, <2>1, FetchKeeps DEF Refresh, WifiInv, TypeOK, threadVars, mutexVars, commandVars
  <2> QED
    BY <1>5, <2>1, <2>2, FetchKeeps DEF Refresh, WifiInv, StepInv, TokenInv, AcceptedInv,
                                        DoneIsExecuted, commandVars
<1> QED
  BY <1>1, <1>2, <1>3, <1>4, <1>5

(* The end of a command, or its next call. *)
LEMMA ProceedKeeps ==
    ASSUME WifiInv, Proceed, current \in Commands, held = TRUE,
           accepted' => current \in executed' \cup nameless',
           executed \subseteq executed', nameless \subseteq nameless'
    PROVE  /\ outcome' \in [Commands -> {"none", "waiting", "done", "abandoned", "lost"}]
           /\ current' \in Commands \cup {NoCommand} /\ held' \in BOOLEAN
           /\ held' <=> current' # NoCommand
           /\ \/ pc' = "top" /\ current' = NoCommand
              \/ pc' = "send" /\ current' = current /\ ~LastCall
           /\ DoneIsExecuted'
<1>1. CASE pc' = "send" /\ UNCHANGED <<outcome, current, held>> /\ ~LastCall
  BY <1>1 DEF WifiInv, TypeOK, DoneIsExecuted, Commands, NoCommand
<1>2. CASE accepted' /\ End("done")
  BY <1>2 DEF End, WifiInv, TypeOK, DoneIsExecuted, Commands, NoCommand
<1>3. CASE ~accepted' /\ LastCall /\ End("abandoned")
  BY <1>3 DEF End, WifiInv, TypeOK, DoneIsExecuted, Commands, NoCommand
<1> QED
  BY <1>1, <1>2, <1>3 DEF Proceed

LEMMA SendInv ==
    ASSUME WifiInv, Send
    PROVE  WifiInv'
<1> USE WifiAssumption
<1>1. /\ pc = "send" /\ current \in Commands /\ held = TRUE
      /\ calls \in Nat /\ calls <= MaxNumberRetry /\ calls' = calls + 1
      /\ (SendOk /\ accepted' = TRUE) \/ (SendFails /\ accepted' = FALSE)
      /\ UNCHANGED <<bus, threadVars, queue, signalled, tokenVars, pinged, sent>>
  <2>1. /\ pc = "send" /\ calls' = calls + 1
        /\ (SendOk /\ accepted' = TRUE) \/ (SendFails /\ accepted' = FALSE)
    BY DEF Send
  <2>4. UNCHANGED <<bus, threadVars, queue, signalled, tokenVars, pinged, sent>>
    BY DEF Send
  <2>2. current \in Commands /\ held = TRUE
    BY <2>1 DEF WifiInv, TypeOK, StepInv
  <2>3. calls \in Nat /\ calls <= MaxNumberRetry
    BY <2>1 DEF WifiInv, TypeOK, StepInv
  <2> QED
    BY <2>1, <2>2, <2>3, <2>4
<1>2. /\ troubles' \in 0..MaxTroubles
      /\ troubled' \in BOOLEAN /\ (troubled => troubled')
      /\ nameless' \subseteq Commands /\ nameless \subseteq nameless'
      /\ executed' \subseteq Commands /\ executed \subseteq executed'
      /\ accepted' => current \in executed' \cup nameless'
      /\ refused' \in BOOLEAN
  BY <1>1, SendKeeps
<1>6. accepted' \in BOOLEAN
  BY <1>1
<1>7. calls' \in 0..(MaxNumberRetry + 1)
  BY <1>1
<1>4. CASE RefetchDue
  <2>1. pc' = "refetch" /\ UNCHANGED <<outcome, current, held>>
    BY <1>4 DEF Send
  <2>2. TypeOK'
    BY <1>1, <1>2, <1>6, <1>7, <2>1 DEF WifiInv, TypeOK, threadVars, tokenVars
  <2>3. StepInv' /\ TokenInv' /\ AcceptedInv'
    BY <1>1, <1>2, <1>4, <2>1 DEF WifiInv, StepInv, TokenInv, AcceptedInv, RefetchDue
  <2>4. DoneIsExecuted'
    BY <1>2, <2>1 DEF WifiInv, DoneIsExecuted
  <2> QED
    BY <2>2, <2>3, <2>4 DEF WifiInv
<1>5. CASE ~RefetchDue
  <2>1. Proceed
    BY <1>5 DEF Send
  <2>2. /\ outcome' \in [Commands -> {"none", "waiting", "done", "abandoned", "lost"}]
        /\ current' \in Commands \cup {NoCommand} /\ held' \in BOOLEAN
        /\ held' <=> current' # NoCommand
        /\ \/ pc' = "top" /\ current' = NoCommand
           \/ pc' = "send" /\ current' = current /\ ~LastCall
        /\ DoneIsExecuted'
    BY <1>1, <1>2, <2>1, ProceedKeeps
  <2>3. TypeOK'
    BY <1>1, <1>2, <1>6, <1>7, <2>2 DEF WifiInv, TypeOK, threadVars, tokenVars
  <2>4. StepInv' /\ AcceptedInv'
    BY <1>1, <2>2 DEF StepInv, AcceptedInv, LastCall, Commands, NoCommand
  <2>5. TokenInv'
    BY <1>1, <1>2, <1>5, <2>2 DEF WifiInv, TokenInv, RefetchDue, tokenVars
  <2> QED
    BY <2>2, <2>3, <2>4, <2>5 DEF WifiInv
<1> QED
  BY <1>4, <1>5

LEMMA RefetchInv ==
    ASSUME WifiInv, Refetch
    PROVE  WifiInv'
<1> USE WifiAssumption
<1>1. /\ pc = "refetch" /\ current \in Commands /\ held = TRUE
      /\ calls' = calls /\ accepted' = accepted /\ executed' = executed
      /\ calls = RefetchAt + 1 /\ calls <= MaxNumberRetry
      /\ FetchOk \/ FetchFails
      /\ Proceed
      /\ UNCHANGED <<bus, threadVars, queue, signalled, failedCount, old, pinged, sent, executed>>
  BY DEF Refetch, WifiInv, TypeOK, StepInv, NoCommand
<1>2. /\ token' \in {"none", "valid", "expired"}
      /\ troubles' \in 0..MaxTroubles
      /\ troubled' \in BOOLEAN /\ (troubled => troubled')
      /\ nameless' \subseteq Commands /\ nameless \subseteq nameless'
      /\ refused' \in BOOLEAN
      /\ token' = "valid" \/ troubled'
  BY <1>1, FetchKeeps DEF WifiInv, StepInv
<1>3. ~LastCall
  BY <1>1 DEF LastCall
<1>4. /\ outcome' \in [Commands -> {"none", "waiting", "done", "abandoned", "lost"}]
      /\ current' \in Commands \cup {NoCommand} /\ held' \in BOOLEAN
      /\ held' <=> current' # NoCommand
      /\ \/ pc' = "top" /\ current' = NoCommand
         \/ pc' = "send" /\ current' = current
      /\ DoneIsExecuted'
  <2>1. accepted' => current \in executed' \cup nameless'
    BY <1>1, <1>2 DEF WifiInv, AcceptedInv
  <2> QED
    BY <1>1, <1>2, <2>1, ProceedKeeps
<1>5. TypeOK'
  BY <1>1, <1>2, <1>4 DEF WifiInv, TypeOK, threadVars
<1>6. StepInv' /\ TokenInv' /\ AcceptedInv'
  BY <1>1, <1>2, <1>4 DEF StepInv, TokenInv, AcceptedInv, Commands, NoCommand
<1> QED
  BY <1>4, <1>5, <1>6 DEF WifiInv

LEMMA NextInv == WifiInv /\ [Next]_vars => WifiInv'
<1> SUFFICES ASSUME WifiInv, [Next]_vars PROVE WifiInv'
  OBVIOUS
<1>1. CASE Arrive \/ Enqueue \/ AnswerPing \/ EndThread
  BY <1>1, ThreadInv
<1>2. CASE Ping \/ RestartByWatchdog \/ Command \/ Age \/ ExpireToken
  BY <1>2, EnvironmentInv
<1>3. CASE Hang \/ Die
  BY <1>3, BadCallInv
<1>4. CASE Boot \/ WaitForCommand \/ Wake \/ TakeCommand \/ Refresh
  BY <1>4, LoopInv
<1>5. CASE Send
  BY <1>5, SendInv
<1>6. CASE Refetch
  BY <1>6, RefetchInv
<1>7. CASE UNCHANGED vars
  BY <1>7 DEF vars, threadVars, mutexVars, commandVars, tokenVars, faultVars, WifiInv, TypeOK,
              StepInv, TokenInv, AcceptedInv, DoneIsExecuted
<1> QED
  BY <1>1, <1>2, <1>3, <1>4, <1>5, <1>6, <1>7 DEF Next, Thread, Main

-----------------------------------------------------------------------------
(* The way of a command through the service: it is on the bus, in the hands of
   the message thread, in the queue or carried out by main, in the order in which
   CORE sent them.                                                             *)

Hand   == {inHand} \ {NoCommand}
Places == ({current} \ {NoCommand}) \cup ToSet(queue) \cup Hand \cup ToSet(bus)

Below(S, T)   == \A a \in S, b \in T : a < b
Increasing(s) == \A i, j \in 1..Len(s) : i < j => s[i] < s[j]

(* CORE numbers the commands as it sends them. *)
SentInv == \A c \in Commands : outcome[c] = "none" <=> c > sent

(* What is still to come to an end is in one of these places, and nothing else. *)
WhereInv == \A c \in Commands : outcome[c] = "waiting" <=> c \in Places

(* The places follow each other in the order of the commands in them. *)
LineInv ==
    /\ Increasing(queue) /\ Increasing(bus)
    /\ Below({current}, ToSet(queue) \cup Hand \cup ToSet(bus))
    /\ Below(ToSet(queue), Hand \cup ToSet(bus))
    /\ Below(Hand, ToSet(bus))

Over(c) == outcome[c] \in {"done", "abandoned"}
OverInv == \A c \in Commands : Over(c) => Below({c}, Places)

WayInv == SentInv /\ WhereInv /\ LineInv /\ OverInv

LEMMA SetOfSequence ==
    ASSUME NEW s \in Seq(Commands)
    PROVE  ToSet(s) = {s[i] : i \in 1..Len(s)} /\ ToSet(s) \subseteq Commands
BY DEF ToSet

LEMMA TakeFirst ==
    ASSUME NEW s \in Seq(Commands), s # <<>>, Increasing(s)
    PROVE  /\ Head(s) \in Commands /\ Tail(s) \in Seq(Commands)
           /\ ToSet(s) = {Head(s)} \cup ToSet(Tail(s))
           /\ Below({Head(s)}, ToSet(Tail(s))) /\ Increasing(Tail(s))
<1>1. /\ Head(s) = s[1] /\ Tail(s) \in Seq(Commands) /\ Len(s) \in Nat \ {0}
      /\ Len(Tail(s)) = Len(s) - 1 /\ \A i \in 1..(Len(s) - 1) : Tail(s)[i] = s[i + 1]
  OBVIOUS
<1>2. ToSet(s) = {s[i] : i \in 1..Len(s)} /\ ToSet(Tail(s)) = {Tail(s)[i] : i \in 1..Len(Tail(s))}
  BY <1>1, SetOfSequence
<1>3. ToSet(s) \subseteq {Head(s)} \cup ToSet(Tail(s))
  <2> SUFFICES ASSUME NEW i \in 1..Len(s)
               PROVE  s[i] \in {Head(s)} \cup ToSet(Tail(s))
    BY <1>2
  <2>1. CASE i = 1
    BY <1>1, <2>1
  <2>2. CASE i # 1
    <3>1. i - 1 \in 1..Len(Tail(s)) /\ Tail(s)[i - 1] = s[i]
      BY <1>1, <2>2
    <3> QED BY <1>2, <3>1
  <2> QED BY <2>1, <2>2
<1>4. ASSUME NEW i \in 1..Len(Tail(s))
      PROVE  Tail(s)[i] \in ToSet(s) /\ Head(s) < Tail(s)[i]
  <2>1. i + 1 \in 1..Len(s) /\ 1 \in 1..Len(s) /\ Tail(s)[i] = s[i + 1] /\ 1 < i + 1
    BY <1>1
  <2> QED BY <1>1, <1>2, <2>1 DEF Increasing
<1>5. Increasing(Tail(s))
  <2> SUFFICES ASSUME NEW i \in 1..Len(Tail(s)), NEW j \in 1..Len(Tail(s)), i < j
               PROVE  Tail(s)[i] < Tail(s)[j]
    BY DEF Increasing
  <2>1. /\ i + 1 \in 1..Len(s) /\ j + 1 \in 1..Len(s) /\ i + 1 < j + 1
        /\ Tail(s)[i] = s[i + 1] /\ Tail(s)[j] = s[j + 1]
    BY <1>1
  <2> QED BY <2>1 DEF Increasing
<1>6. Head(s) \in Commands /\ Head(s) \in ToSet(s)
  BY <1>1, <1>2
<1>7. ToSet(Tail(s)) \subseteq ToSet(s) /\ Below({Head(s)}, ToSet(Tail(s)))
  BY <1>2, <1>4 DEF Below
<1> QED BY <1>1, <1>3, <1>5, <1>6, <1>7

LEMMA AddLast ==
    ASSUME NEW s \in Seq(Commands), NEW c \in Commands, Increasing(s), Below(ToSet(s), {c})
    PROVE  /\ Append(s, c) \in Seq(Commands)
           /\ ToSet(Append(s, c)) = ToSet(s) \cup {c} /\ Increasing(Append(s, c))
<1> DEFINE t == Append(s, c)
<1>1. /\ t \in Seq(Commands) /\ Len(s) \in Nat /\ Len(t) = Len(s) + 1
      /\ t[Len(s) + 1] = c /\ \A i \in 1..Len(s) : t[i] = s[i]
  OBVIOUS
<1>2. ToSet(s) = {s[i] : i \in 1..Len(s)} /\ ToSet(t) = {t[i] : i \in 1..Len(t)}
  BY <1>1, SetOfSequence
<1> HIDE DEF t
<1>3. ToSet(t) = ToSet(s) \cup {c}
  <2>1. \A i \in 1..Len(t) : i \in 1..Len(s) \/ i = Len(s) + 1
    BY <1>1
  <2>2. \A i \in 1..Len(s) : i \in 1..Len(t)
    BY <1>1
  <2>3. Len(s) + 1 \in 1..Len(t)
    BY <1>1
  <2> QED BY <1>1, <1>2, <2>1, <2>2, <2>3
<1>4. Increasing(t)
  <2> SUFFICES ASSUME NEW i \in 1..Len(t), NEW j \in 1..Len(t), i < j
               PROVE  t[i] < t[j]
    BY DEF Increasing
  <2>1. i \in 1..Len(s) /\ t[i] = s[i] /\ s[i] \in ToSet(s)
    BY <1>1, <1>2
  <2>2. CASE j \in 1..Len(s)
    BY <1>1, <2>1, <2>2 DEF Increasing
  <2>3. CASE j = Len(s) + 1
    BY <1>1, <2>1, <2>3 DEF Below
  <2> QED BY <1>1, <2>2, <2>3
<1> QED BY <1>1, <1>3, <1>4 DEF t

LEMMA PlaceTypes ==
    ASSUME WifiInv
    PROVE  /\ ToSet(queue) \subseteq Commands /\ ToSet(bus) \subseteq Commands
           /\ Hand \subseteq Commands /\ Places \subseteq Commands
           /\ current \in Commands \cup {NoCommand} /\ Commands \subseteq Nat \ {0} /\ NoCommand = 0
           /\ sent \in Nat
<1>1. queue \in Seq(Commands) /\ bus \in Seq(Commands) /\ inHand \in Commands \cup {NoCommand}
      /\ current \in Commands \cup {NoCommand} /\ sent \in Nat
  BY WifiAssumption DEF WifiInv, TypeOK
<1>2. ToSet(queue) \subseteq Commands /\ ToSet(bus) \subseteq Commands
  BY <1>1, SetOfSequence
<1> QED BY <1>1, <1>2, WifiAssumption DEF Hand, Places, Commands, NoCommand

(* The steps in which no command moves. *)
LEMMA NothingMoves ==
    ASSUME WayInv, UNCHANGED <<bus, inHand, queue, current, outcome, sent>>
    PROVE  WayInv'
<1>1. Places' = Places /\ Hand' = Hand
  BY DEF Places, Hand
<1> QED BY <1>1 DEF WayInv, SentInv, WhereInv, LineInv, OverInv, Over

(* A command that goes on to its next place. *)
LEMMA ArriveWay ==
    ASSUME WifiInv, WayInv, Arrive
    PROVE  WayInv'
<1>1. /\ bus # <<>> /\ inHand' = Head(bus) /\ bus' = Tail(bus) /\ Hand = {}
      /\ UNCHANGED <<queue, current, outcome, sent>> /\ bus \in Seq(Commands) /\ Increasing(bus)
  BY DEF Arrive, commandVars, Hand, WifiInv, TypeOK, WayInv, LineInv
<1>2. /\ Head(bus) \in Commands /\ ToSet(bus) = {inHand'} \cup ToSet(bus')
      /\ Below({inHand'}, ToSet(bus')) /\ Increasing(bus')
  BY <1>1, TakeFirst
<1>3. Hand' = {inHand'}
  BY <1>1, <1>2 DEF Hand, Commands, NoCommand
<1>4. Places' = Places
  BY <1>1, <1>2, <1>3 DEF Places
<1>5. LineInv'
  BY <1>1, <1>2, <1>3 DEF WayInv, LineInv, Below
<1> QED BY <1>1, <1>4, <1>5 DEF WayInv, SentInv, WhereInv, OverInv, Over

LEMMA TakeWay ==
    ASSUME WifiInv, WayInv, TakeCommand
    PROVE  WayInv'
<1>1. /\ queue # <<>> /\ current' = Head(queue) /\ queue' = Tail(queue) /\ current = NoCommand
      /\ UNCHANGED <<bus, inHand, outcome, sent>> /\ queue \in Seq(Commands) /\ Increasing(queue)
  BY DEF TakeCommand, threadVars, WifiInv, TypeOK, StepInv, WayInv, LineInv
<1>2. /\ Head(queue) \in Commands /\ ToSet(queue) = {current'} \cup ToSet(queue')
      /\ Below({current'}, ToSet(queue')) /\ Increasing(queue')
  BY <1>1, TakeFirst
<1>3. Hand' = Hand /\ current' # NoCommand
  BY <1>1, <1>2 DEF Hand, Commands, NoCommand
<1>4. Places' = Places
  BY <1>1, <1>2, <1>3 DEF Places
<1>5. LineInv'
  BY <1>1, <1>2, <1>3 DEF WayInv, LineInv, Below
<1> QED BY <1>1, <1>4, <1>5 DEF WayInv, SentInv, WhereInv, OverInv, Over

LEMMA EnqueueWay ==
    ASSUME WifiInv, WayInv, Enqueue
    PROVE  WayInv'
<1>1. /\ inHand \in Commands /\ inHand' = NoCommand /\ Hand = {inHand} /\ Hand' = {}
      /\ queue \in Seq(Commands) /\ Increasing(queue)
      /\ UNCHANGED <<bus, current, sent>> /\ NoCommand \notin Commands
  BY DEF Enqueue, commandVars, Hand, WifiInv, TypeOK, WayInv, LineInv, Commands, NoCommand
<1>2. CASE Len(queue) < QueueSize
  <2>1. queue' = Append(queue, inHand) /\ outcome' = outcome
    BY <1>2 DEF Enqueue
  <2>2. Below(ToSet(queue), {inHand})
    BY <1>1 DEF WayInv, LineInv, Below
  <2>3. ToSet(queue') = ToSet(queue) \cup {inHand} /\ Increasing(queue')
    BY <1>1, <2>1, <2>2, AddLast
  <2>4. Places' = Places
    BY <1>1, <2>3 DEF Places
  <2>5. LineInv'
    BY <1>1, <2>3 DEF WayInv, LineInv, Below
  <2> QED BY <1>1, <2>1, <2>4, <2>5 DEF WayInv, SentInv, WhereInv, OverInv, Over
<1>3. CASE ~(Len(queue) < QueueSize)
  <2>1. queue' = queue /\ outcome' = [outcome EXCEPT ![inHand] = "lost"]
    BY <1>3 DEF Enqueue
  <2>2. Places = Places' \cup {inHand} /\ inHand \in Places
    BY <1>1, <2>1 DEF Places
  <2>3. inHand \notin Places'
    <3>1. Places' \subseteq ({current} \ {NoCommand}) \cup ToSet(queue) \cup ToSet(bus)
      BY <1>1, <2>1 DEF Places
    <3>2. Below({current} \cup ToSet(queue), {inHand}) /\ Below({inHand}, ToSet(bus))
      BY <1>1 DEF WayInv, LineInv, Below
    <3>3. inHand \notin {current} \cup ToSet(queue) \cup ToSet(bus)
      BY <1>1, <3>2, PlaceTypes DEF Below
    <3> QED BY <3>1, <3>3
  <2>4. /\ outcome'[inHand] = "lost" /\ outcome[inHand] = "waiting"
        /\ \A c \in Commands \ {inHand} : outcome'[c] = outcome[c]
    BY <1>1, <2>1, <2>2 DEF WifiInv, TypeOK, WayInv, WhereInv
  <2>5. LineInv'
    BY <1>1, <2>1 DEF WayInv, LineInv, Below
  <2>6. WhereInv' /\ SentInv'
    BY <1>1, <2>2, <2>3, <2>4 DEF WayInv, WhereInv, SentInv
  <2>7. OverInv'
    BY <1>1, <2>2, <2>4 DEF WayInv, OverInv, Over, Below
  <2> QED BY <2>5, <2>6, <2>7 DEF WayInv
<1> QED BY <1>2, <1>3

(* A new command. *)
LEMMA CommandWay ==
    ASSUME WifiInv, WayInv, Command
    PROVE  WayInv'
<1>1. /\ sent' = sent + 1 /\ sent' \in Commands /\ bus' = Append(bus, sent')
      /\ outcome' = [outcome EXCEPT ![sent'] = "waiting"]
      /\ UNCHANGED <<inHand, queue, current>> /\ Hand' = Hand /\ sent \in Nat
      /\ bus \in Seq(Commands) /\ Increasing(bus)
  BY WifiAssumption DEF Command, threadVars, commandVars, Hand, WifiInv, TypeOK, WayInv, LineInv, Commands
<1>2. Below(Places \cup {current}, {sent'})
  <2>1. ASSUME NEW c \in Places
        PROVE  c <= sent /\ c \in Nat
    <3>1. c \in Commands /\ c \in Nat
      BY PlaceTypes
    <3>2. outcome[c] = "waiting"
      BY <3>1 DEF WayInv, WhereInv
    <3>3. ~(c > sent)
      BY <3>1, <3>2 DEF WayInv, SentInv
    <3> QED BY <1>1, <3>1, <3>3
  <2>2. current = 0 \/ current \in Places
    BY DEF Places, NoCommand
  <2> QED BY <1>1, <2>1, <2>2 DEF Below
<1>3. ToSet(bus') = ToSet(bus) \cup {sent'} /\ Increasing(bus')
  BY <1>1, <1>2, AddLast DEF Places, Below
<1>4. Places' = Places \cup {sent'}
  BY <1>1, <1>3 DEF Places
<1>5. LineInv'
  BY <1>1, <1>2, <1>3 DEF WayInv, LineInv, Below, Places
<1>6. outcome'[sent'] = "waiting" /\ \A c \in Commands \ {sent'} : outcome'[c] = outcome[c]
  BY <1>1 DEF WifiInv, TypeOK
<1>7. SentInv'
  <2>1. \A c \in Commands \ {sent'} : c > sent <=> c > sent'
    BY <1>1, PlaceTypes
  <2> QED BY <1>1, <1>6, <2>1 DEF WayInv, SentInv
<1>8. WhereInv'
  BY <1>4, <1>6 DEF WayInv, WhereInv
<1>9. OverInv'
  <2> SUFFICES ASSUME NEW c \in Commands, Over(c)'
               PROVE  Below({c}, Places')
    BY DEF OverInv, Below
  <2>1. Over(c) /\ c # sent'
    BY <1>6 DEF Over
  <2>2. c < sent'
    BY <1>1, <2>1, PlaceTypes DEF WayInv, SentInv, Over
  <2> QED BY <1>4, <2>1, <2>2 DEF WayInv, OverInv, Below
<1> QED BY <1>5, <1>7, <1>8, <1>9 DEF WayInv

(* The end of a command, in the place before all others. *)
LEMMA EndWay ==
    ASSUME WifiInv, WayInv, current \in Commands, NEW what \in {"done", "abandoned"}, End(what),
           UNCHANGED <<bus, inHand, queue, sent>>
    PROVE  WayInv'
<1>1. /\ current' = NoCommand /\ outcome' = [outcome EXCEPT ![current] = what] /\ Hand' = Hand
      /\ NoCommand \notin Commands
  BY DEF End, Hand, Commands, NoCommand
<1>2. Below({current}, Places') /\ Places = Places' \cup {current} /\ current \in Places
  BY <1>1 DEF WayInv, LineInv, Below, Places
<1>3. current \notin Places'
  BY <1>2, PlaceTypes DEF Below
<1>4. /\ outcome'[current] = what /\ outcome[current] = "waiting"
      /\ \A c \in Commands \ {current} : outcome'[c] = outcome[c]
  BY <1>1, <1>2 DEF WifiInv, TypeOK, WayInv, WhereInv
<1>5. LineInv'
  <2>1. Below({NoCommand}, ToSet(queue) \cup Hand \cup ToSet(bus))
    BY PlaceTypes DEF Below
  <2> QED BY <1>1, <2>1 DEF WayInv, LineInv
<1>6. WhereInv' /\ SentInv'
  BY <1>2, <1>3, <1>4 DEF WayInv, WhereInv, SentInv
<1>7. OverInv'
  BY <1>2, <1>4 DEF WayInv, OverInv, Over, Below
<1> QED BY <1>5, <1>6, <1>7 DEF WayInv

LEMMA ProceedWay ==
    ASSUME WifiInv, WayInv, current \in Commands, Proceed, UNCHANGED <<bus, inHand, queue, sent>>
    PROVE  WayInv'
<1>1. \/ End("done") \/ End("abandoned") \/ UNCHANGED <<outcome, current>>
  BY DEF Proceed
<1> QED BY <1>1, EndWay, NothingMoves

LEMMA StartAgainWay ==
    ASSUME WifiInv, WayInv, StartAgain, UNCHANGED sent
    PROVE  WayInv'
<1>1. /\ bus' = <<>> /\ queue' = <<>> /\ inHand' = NoCommand /\ current' = NoCommand
      /\ outcome' = Lost(Places)
  BY DEF StartAgain, Places, Hand
<1>2. ToSet(<<>>) = {}
  BY DEF ToSet
<1>3. Places' = {} /\ Hand' = {}
  BY <1>1, <1>2 DEF Places, Hand
<1>4. \A c \in Commands : outcome'[c] = IF c \in Places THEN "lost" ELSE outcome[c]
  BY <1>1 DEF Lost
<1>5. LineInv'
  BY <1>1, <1>2, <1>3 DEF LineInv, Below, Increasing
<1>6. WhereInv' /\ SentInv'
  BY <1>3, <1>4 DEF WayInv, WhereInv, SentInv
<1>7. OverInv'
  BY <1>3 DEF OverInv, Below
<1> QED BY <1>5, <1>6, <1>7 DEF WayInv

LEMMA NextWay == WifiInv /\ WayInv /\ [Next]_vars => WayInv'
<1> SUFFICES ASSUME WifiInv, WayInv, [Next]_vars PROVE WayInv'
  OBVIOUS
<1>1. CASE Arrive \/ Enqueue \/ TakeCommand \/ Command
  BY <1>1, ArriveWay, EnqueueWay, TakeWay, CommandWay
<1>2. CASE RestartByWatchdog \/ Die
  BY <1>2, StartAgainWay DEF RestartByWatchdog, Die
<1>3. CASE AnswerPing \/ EndThread \/ Ping \/ Age \/ ExpireToken \/ Hang
  BY <1>3, NothingMoves DEF AnswerPing, EndThread, Ping, Age, ExpireToken, Hang, threadVars, commandVars
<1>4. CASE Boot \/ WaitForCommand \/ Wake \/ Refresh
  BY <1>4, NothingMoves DEF Boot, WaitForCommand, Wake, Refresh, threadVars, commandVars
<1>5. CASE Send \/ Refetch
  <2>1. UNCHANGED <<bus, inHand, queue, sent>>
    BY <1>5 DEF Send, Refetch, threadVars
  <2>2. Proceed \/ UNCHANGED <<outcome, current>>
    BY <1>5 DEF Send, Refetch
  <2>3. current \in Commands
    BY <1>5 DEF Send, Refetch, WifiInv, StepInv, TypeOK
  <2> QED BY <2>1, <2>2, <2>3, ProceedWay, NothingMoves
<1>6. CASE UNCHANGED vars
  BY <1>6, NothingMoves DEF vars, threadVars, commandVars
<1> QED
  BY <1>1, <1>2, <1>3, <1>4, <1>5, <1>6 DEF Next, Thread, Main

LEMMA InitWay == Init => WayInv
<1> SUFFICES ASSUME Init PROVE WayInv
  OBVIOUS
<1>1. ToSet(<<>>) = {}
  BY DEF ToSet
<1>2. Places = {} /\ Hand = {}
  BY <1>1 DEF Init, Places, Hand
<1>3. LineInv
  BY <1>1, <1>2 DEF Init, LineInv, Below, Increasing
<1>4. SentInv /\ WhereInv /\ OverInv
  BY <1>2, WifiAssumption DEF Init, SentInv, WhereInv, OverInv, Over, Commands
<1> QED BY <1>3, <1>4 DEF WayInv

LEMMA WayHolds == Spec => [](WifiInv /\ WayInv)
<1> QED BY InitInv, NextInv, InitWay, NextWay, PTL DEF Spec

-----------------------------------------------------------------------------
(* What the cloud has carried out. *)

(* Only the command in hand, or one that is over, can have been carried out; and if
   the one in hand was, then a call for it went wrong, or it was accepted and only
   the new token keeps it from its end.                                            *)
CarriedOutInv ==
    /\ \A c \in executed : c = current \/ outcome[c] \notin {"none", "waiting"}
    /\ current \in executed => troubled \/ (pc = "refetch" /\ accepted)

LEMMA CallCarriedOut ==
    ASSUME WifiInv, WayInv, CarriedOutInv, Send \/ Refetch
    PROVE  /\ CarriedOutInv'
           /\ \A c \in Commands : outcome[c] # "abandoned" /\ outcome'[c] = "abandoned"
                  => troubled' \/ (refused' /\ c \notin executed')
<1>1. /\ current \in Commands /\ current # NoCommand /\ NoCommand \notin Commands
      /\ outcome \in [Commands -> {"none", "waiting", "done", "abandoned", "lost"}]
      /\ executed \subseteq Commands
  BY DEF Send, Refetch, WifiInv, StepInv, TypeOK, Commands, NoCommand
<1>2. /\ executed' \in {executed, executed \cup {current}}
      /\ troubled => troubled'
      /\ current \in executed' => troubled' \/ accepted'
  <2>1. CASE Send
    <3>1. executed' \in {executed, executed \cup {current}}
      BY <2>1 DEF Send, SendOk, SendFails
    <3>2. (SendOk /\ accepted') \/ SendFails
      BY <2>1 DEF Send
    <3>3. pc = "send" /\ (current \in executed => troubled)
      BY <2>1 DEF Send, CarriedOutInv
    <3>4. troubled => troubled'
      BY <1>1, <3>2, SendKeeps
    <3>5. SendFails => executed' = executed \/ troubled'
      BY <1>1, TroubleKept DEF SendFails
    <3> QED BY <3>1, <3>2, <3>3, <3>4, <3>5
  <2>2. CASE Refetch
    <3>1. executed' = executed /\ accepted' = accepted /\ (FetchOk \/ FetchFails)
      BY <2>2 DEF Refetch
    <3> QED BY <3>1, FetchKeeps DEF CarriedOutInv
  <2> QED BY <2>1, <2>2
<1>3. CASE ~Proceed
  <2>1. pc' = "refetch" /\ UNCHANGED <<outcome, current>>
    BY <1>3 DEF Send, Refetch
  <2> QED BY <1>1, <1>2, <2>1 DEF CarriedOutInv
<1>4. CASE Proceed /\ UNCHANGED <<outcome, current>> /\ ~accepted'
  BY <1>1, <1>2, <1>4 DEF CarriedOutInv
<1>5. CASE accepted' /\ End("done")
  <2>1. /\ current' = NoCommand /\ outcome' = [outcome EXCEPT ![current] = "done"]
    BY <1>5 DEF End
  <2> QED BY <1>1, <1>2, <2>1 DEF CarriedOutInv
<1>6. CASE ~accepted' /\ LastCall /\ End("abandoned")
  <2>1. /\ current' = NoCommand /\ outcome' = [outcome EXCEPT ![current] = "abandoned"]
    BY <1>6 DEF End
  <2>2. Send /\ pc = "send" /\ calls = MaxNumberRetry
    BY <1>6, WifiAssumption DEF Send, Refetch, LastCall, WifiInv, StepInv, TypeOK
  <2>3. SendFails
    BY <1>6, <2>2 DEF Send
  <2>4. token = "valid" \/ troubled
    BY <2>2, WifiAssumption DEF WifiInv, TokenInv
  <2>5. troubled' \/ refused'
    BY <1>1, <1>2, <2>3, <2>4, SendKeeps
  <2>6. current \in executed' => troubled'
    BY <1>2, <1>6
  <2> QED BY <1>1, <1>2, <2>1, <2>5, <2>6 DEF CarriedOutInv
<1> QED
  BY <1>3, <1>4, <1>5, <1>6 DEF Proceed

LEMMA NextCarriedOut ==
    ASSUME WifiInv, WayInv, CarriedOutInv, [Next]_vars
    PROVE  /\ CarriedOutInv'
           /\ [\A c \in Commands : outcome[c] # "abandoned" /\ outcome'[c] = "abandoned"
                  => troubled' \/ (refused' /\ c \notin executed')]_vars
<1>1. /\ outcome \in [Commands -> {"none", "waiting", "done", "abandoned", "lost"}]
      /\ executed \subseteq Commands /\ NoCommand \notin Commands
      /\ current \in Commands \cup {NoCommand}
  BY DEF WifiInv, TypeOK, Commands, NoCommand
<1>2. CASE Send \/ Refetch
  BY <1>2, CallCarriedOut
<1>3. CASE RestartByWatchdog \/ Die
  <2>1. /\ executed' = executed /\ current' = NoCommand /\ outcome' = Lost(Places)
    BY <1>3 DEF RestartByWatchdog, Die, StartAgain, Places, Hand
  <2>2. current # NoCommand => current \in Places
    BY DEF Places
  <2>3. \A c \in Commands : outcome'[c] = IF c \in Places THEN "lost" ELSE outcome[c]
    BY <2>1 DEF Lost
  <2> QED BY <1>1, <2>1, <2>2, <2>3 DEF CarriedOutInv
<1>4. CASE Enqueue
  <2>1. outcome' = outcome \/ outcome' = [outcome EXCEPT ![inHand] = "lost"]
    BY <1>4 DEF Enqueue
  <2> QED BY <1>1, <1>4, <2>1 DEF CarriedOutInv, Enqueue, commandVars, faultVars
<1>5. CASE Command
  <2>1. /\ sent' \in Commands /\ sent' > sent /\ outcome' = [outcome EXCEPT ![sent'] = "waiting"]
    BY <1>5, WifiAssumption DEF Command, WifiInv, TypeOK, Commands
  <2>2. outcome[sent'] = "none"
    BY <2>1 DEF WayInv, SentInv
  <2>3. current # NoCommand => outcome[current] = "waiting"
    BY <1>1 DEF WayInv, WhereInv, Places
  <2>4. sent' \notin executed
    BY <1>1, <2>1, <2>2, <2>3 DEF CarriedOutInv
  <2> QED BY <1>1, <1>5, <2>1, <2>4 DEF CarriedOutInv, Command, commandVars, faultVars
<1>6. CASE TakeCommand
  <2>1. /\ current = NoCommand /\ current' = Head(queue) /\ Head(queue) \in Places
        /\ UNCHANGED <<executed, outcome>>
    <3>1. queue # <<>> /\ queue \in Seq(Commands) /\ Increasing(queue) /\ current = NoCommand
      BY <1>6 DEF TakeCommand, WifiInv, StepInv, TypeOK, WayInv, LineInv
    <3> QED BY <1>6, <3>1, TakeFirst DEF TakeCommand, Places
  <2>2. Head(queue) \in Commands /\ outcome[Head(queue)] = "waiting"
    BY <2>1, PlaceTypes DEF WayInv, WhereInv
  <2>3. Head(queue) \notin executed
    BY <1>1, <2>1, <2>2 DEF CarriedOutInv
  <2> QED BY <1>1, <2>1, <2>3 DEF CarriedOutInv
<1>7. CASE Hang
  <2>1. (troubled => troubled') /\ (current # NoCommand => troubled')
    BY <1>7, TroubleKept DEF Hang
  <2> QED BY <1>1, <1>7, <2>1 DEF CarriedOutInv, Hang, commandVars
<1>8. CASE ExpireToken
  <2>1. troubled => troubled'
    BY <1>8, TroubleKept DEF ExpireToken
  <2> QED BY <1>1, <1>8, <2>1 DEF CarriedOutInv, ExpireToken, commandVars
<1>9. CASE Boot \/ WaitForCommand \/ Wake
  <2>1. current = NoCommand /\ UNCHANGED <<current, executed, outcome>>
    BY <1>9 DEF Boot, WaitForCommand, Wake, commandVars, WifiInv, StepInv
  <2> QED BY <1>1, <2>1 DEF CarriedOutInv
<1>10. CASE Refresh
  <2>1. (FetchOk \/ FetchFails) /\ pc = "refresh" /\ UNCHANGED <<current, executed, outcome>>
    BY <1>10 DEF Refresh, commandVars
  <2> QED BY <1>1, <2>1, FetchKeeps DEF CarriedOutInv
<1>11. CASE Arrive \/ AnswerPing \/ EndThread \/ Ping \/ Age \/ UNCHANGED vars
  <2>1. UNCHANGED <<current, executed, outcome, pc, accepted, troubled>>
    BY <1>11 DEF Arrive, AnswerPing, EndThread, Ping, Age, vars, commandVars, faultVars
  <2> QED BY <1>1, <2>1 DEF CarriedOutInv
<1> QED
  BY <1>2, <1>3, <1>4, <1>5, <1>6, <1>7, <1>8, <1>9, <1>10, <1>11 DEF Next, Thread, Main

(* An expired token alone never makes the service give a command up: a call for it
   went wrong, or the cloud refused it with a good token and has not carried it out. *)
THEOREM ReasonToGiveUp == Spec => GivenUpForAReason
<1>1. Init => CarriedOutInv
  BY DEF Init, CarriedOutInv
<1>2. WifiInv /\ WayInv /\ CarriedOutInv /\ [Next]_vars => CarriedOutInv'
  BY NextCarriedOut
<1>3. WifiInv /\ WayInv /\ CarriedOutInv /\ [Next]_vars
        => [\A c \in Commands : outcome[c] # "abandoned" /\ outcome'[c] = "abandoned"
               => troubled' \/ (refused' /\ c \notin executed')]_vars
  BY NextCarriedOut
<1> QED
  BY <1>1, <1>2, <1>3, WayHolds, PTL DEF Spec, GivenUpForAReason

-----------------------------------------------------------------------------
(* What is over stays as it is.                                                *)

LEMMA OverStays ==
    ASSUME WifiInv, WayInv, [Next]_vars, NEW c \in Commands, outcome[c] \notin {"none", "waiting"}
    PROVE  outcome'[c] = outcome[c] /\ (c \in executed' => c \in executed)
<1>1. c \notin Places /\ c <= sent /\ c # current /\ c # inHand /\ sent \in Nat
  <2>1. c \notin Places /\ ~(c > sent)
    BY DEF WayInv, WhereInv, SentInv
  <2> QED BY <2>1, PlaceTypes DEF Places, Hand
<1>2. outcome \in [Commands -> {"none", "waiting", "done", "abandoned", "lost"}]
  BY DEF WifiInv, TypeOK
<1>3. CASE Enqueue
  <2>1. outcome' = outcome \/ outcome' = [outcome EXCEPT ![inHand] = "lost"]
    BY <1>3 DEF Enqueue
  <2> QED BY <1>1, <1>2, <1>3, <2>1 DEF Enqueue
<1>4. CASE Command
  BY <1>1, <1>2, <1>4 DEF Command
<1>5. CASE RestartByWatchdog \/ Die
  <2>1. StartAgain /\ executed' = executed
    BY <1>5 DEF RestartByWatchdog, Die
  <2>2. outcome' = Lost(Places)
    BY <2>1 DEF StartAgain, Places, Hand
  <2> QED BY <1>1, <2>1, <2>2 DEF Lost
<1>6. CASE Arrive \/ AnswerPing \/ EndThread \/ Ping \/ Age \/ ExpireToken \/ Hang \/ UNCHANGED vars
  BY <1>6 DEF Arrive, AnswerPing, EndThread, Ping, Age, ExpireToken, Hang, vars
<1>7. CASE Boot \/ WaitForCommand \/ Wake \/ TakeCommand \/ Refresh
  BY <1>7 DEF Boot, WaitForCommand, Wake, TakeCommand, Refresh
<1>8. CASE Send \/ Refetch
  <2>1. Proceed \/ outcome' = outcome
    BY <1>8 DEF Send, Refetch
  <2>2. outcome' = outcome \/ \E what : outcome' = [outcome EXCEPT ![current] = what]
    BY <2>1 DEF Proceed, End
  <2>3. executed' \in {executed, executed \cup {current}}
    BY <1>8 DEF Send, Refetch, SendOk, SendFails
  <2> QED BY <1>1, <1>2, <2>2, <2>3
<1> QED
  BY <1>3, <1>4, <1>5, <1>6, <1>7, <1>8 DEF Next, Thread, Main

-----------------------------------------------------------------------------
(* The wait of main.                                                           *)

(* While main waits without having been woken, there is nothing to be done: a
   command that comes between its look at the queue and its wait is not slept
   over.                                                                       *)
NoneSleptOver == pc = "waiting" /\ queue # <<>> => signalled

LEMMA NextAwake == WifiInv /\ NoneSleptOver /\ [Next]_vars => NoneSleptOver'
<1> SUFFICES ASSUME WifiInv, NoneSleptOver, [Next]_vars, pc' = "waiting", queue' # <<>>
             PROVE  signalled'
  BY DEF NoneSleptOver
<1>1. CASE Enqueue
  BY <1>1 DEF Enqueue, NoneSleptOver
<1>2. CASE Arrive \/ AnswerPing \/ EndThread \/ Ping \/ Command \/ Age \/ ExpireToken \/ UNCHANGED vars
  BY <1>2 DEF Arrive, AnswerPing, EndThread, Ping, Command, Age, ExpireToken, vars, mutexVars, NoneSleptOver
<1>3. CASE RestartByWatchdog \/ Die \/ Hang
  BY <1>3 DEF RestartByWatchdog, Die, Hang, StartAgain
<1>4. CASE Boot \/ WaitForCommand \/ Wake \/ TakeCommand \/ Refresh
  BY <1>4 DEF Boot, WaitForCommand, Wake, TakeCommand, Refresh
<1>5. CASE Send \/ Refetch
  BY <1>5 DEF Send, Refetch, Proceed, End
<1> QED
  BY <1>1, <1>2, <1>3, <1>4, <1>5 DEF Next, Thread, Main

-----------------------------------------------------------------------------
(* The queue stays in its bound, main has the mutex exactly while it carries out a
   command, and no call is made past the last.                                    *)
THEOREM TypeCorrect == Spec => []TypeOK
<1>1. WifiInv => TypeOK
  BY DEF WifiInv
<1> QED
  BY <1>1, InitInv, NextInv, PTL DEF Spec

(* A command that ends as done was carried out by the cloud, unless the host was
   not found during it.                                                         *)
THEOREM DoneWasExecuted == Spec => []DoneIsExecuted
<1>1. WifiInv => DoneIsExecuted
  BY DEF WifiInv
<1> QED
  BY <1>1, InitInv, NextInv, PTL DEF Spec

(* Commands come to their end in the order in which CORE sent them, over the
   broker, the queue and any number of retries: when one is done or given up, no
   earlier one still waits (on_message, main).  One that was lost, as the queue was
   full or the process ended, overtakes nothing.                                   *)
NoneOvertaken == \A c, d \in Commands : c < d /\ Over(d) => outcome[c] # "waiting"

(* No command overtakes another (on_message, enqueue, dequeue, and the tries in main). *)
THEOREM EndInOrder == Spec => []NoneOvertaken
<1>1. WifiInv /\ WayInv => NoneOvertaken
  <2> SUFFICES ASSUME WifiInv, WayInv, NEW c \in Commands, NEW d \in Commands, c < d, Over(d),
                      outcome[c] = "waiting"
               PROVE  FALSE
    BY DEF NoneOvertaken
  <2>1. c \in Places
    BY DEF WayInv, WhereInv
  <2>2. d < c
    BY <2>1 DEF WayInv, OverInv, Below
  <2> QED BY <2>2, PlaceTypes
<1> QED
  BY <1>1, WayHolds, PTL

(* What became of a command is settled once: after its end, be it done, given up or
   lost, the cloud carries it out no more, and no restart changes what it came to.  *)
EndsForGood ==
    [][\A c \in Commands : outcome[c] \notin {"none", "waiting"} =>
          outcome'[c] = outcome[c] /\ (c \in executed' => c \in executed)]_vars

(* The end of a command is its end (main takes it out of the queue before its tries, main_wifi.c:179). *)
THEOREM SettledForGood == Spec => EndsForGood
<1>1. WifiInv /\ WayInv /\ [Next]_vars
        => [\A c \in Commands : outcome[c] \notin {"none", "waiting"} =>
               outcome'[c] = outcome[c] /\ (c \in executed' => c \in executed)]_vars
  BY OverStays
<1> QED
  BY <1>1, WayHolds, PTL DEF Spec, EndsForGood

(* main never waits for a signal while there is a command in the queue that it was
   not woken for (pthread_cond_wait gives up the mutex together with the check).    *)
THEOREM WokenForEach == Spec => []NoneSleptOver
<1>1. Init => NoneSleptOver
  BY DEF Init, NoneSleptOver
<1> QED
  BY <1>1, InitInv, NextInv, NextAwake, PTL DEF Spec
==============================================================================
