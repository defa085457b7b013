------------------------------ MODULE SceneRuns ------------------------------
(*****************************************************************************)
(* What CORE promises of the runs of scenes: a run performs the actions its  *)
(* scene has in the database, each once and in their order.  A run that is   *)
(* started again starts over, a run whose scene list is read again is        *)
(* dropped, and nothing else ends a run before its last action.              *)
(*****************************************************************************)
EXTENDS Sequences

CONSTANTS Scenes, Plans

VARIABLES plan,     \* the actions of each scene in the database
          done,     \* what the last run of each scene has performed
          todo      \* what is left of it

vars == <<plan, done, todo>>

TypeOK ==
    /\ plan \in [Scenes -> Plans \cup {<<>>}]
    /\ done \in [Scenes -> Seq(UNION {{p[k] : k \in DOMAIN p} : p \in Plans})]
    /\ todo \in [Scenes -> Seq(UNION {{p[k] : k \in DOMAIN p} : p \in Plans})]

Init ==
    /\ plan \in [Scenes -> Plans \cup {<<>>}]
    /\ done = [s \in Scenes |-> <<>>]
    /\ todo = [s \in Scenes |-> <<>>]

Started(S) ==
    /\ done' = [s \in Scenes |-> IF s \in S THEN <<>> ELSE done[s]]
    /\ todo' = [s \in Scenes |-> IF s \in S THEN plan[s] ELSE todo[s]]

Start(S) == Started(S) /\ UNCHANGED plan

(* One action of s, which may start another scene. *)
Perform(s, S) ==
    /\ todo[s] # <<>>
    /\ s \notin S
    /\ done' = [x \in Scenes |-> IF x = s THEN Append(done[s], Head(todo[s]))
                                 ELSE IF x \in S THEN <<>> ELSE done[x]]
    /\ todo' = [x \in Scenes |-> IF x = s THEN Tail(todo[s])
                                 ELSE IF x \in S THEN plan[x] ELSE todo[x]]
    /\ UNCHANGED plan

Reload ==
    /\ plan' \in [Scenes -> Plans \cup {<<>>}]
    /\ todo' = [s \in Scenes |-> <<>>]
    /\ UNCHANGED done

Next ==
    \/ \E S \in SUBSET Scenes : Start(S)
    \/ \E s \in Scenes, S \in SUBSET Scenes : Perform(s, S)
    \/ Reload

Spec == Init /\ [][Next]_vars
==============================================================================
