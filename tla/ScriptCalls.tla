---------------------------- MODULE ScriptCalls -----------------------------
(***************************************************************************)
(* What a gRPC handler is promised when it has a batch transformed by a    *)
(* client's script.  A call whose script returns a value of the right      *)
(* shape is answered with that value and nothing else; it is refused only  *)
(* when the script gives no such value, and only such a script ends the    *)
(* process, with the calls of all others.  So it is until such a script    *)
(* damages the memory that all calls share: from then on nothing is        *)
(* promised to any of them.                                                *)
(***************************************************************************)
CONSTANTS
    Callers,
    Values,             \* what scripts may return
    Answer,             \* value of the right shape -> the answer to it
    NoValue, NoAnswer, Error,
    Anything            \* what a call may answer when the memory is damaged

VARIABLES
    sound,   \* the memory is not damaged
    phase,   \* caller -> "idle", "running", "returned", "answered", "lost" or "gone"
    value,   \* what the script returned
    answer
handlers == <<sound, phase, value, answer>>

Init ==
    /\ sound = TRUE
    /\ phase = [c \in Callers |-> "idle"]
    /\ value = [c \in Callers |-> NoValue]
    /\ answer = [c \in Callers |-> NoAnswer]

Call(c) ==
    /\ phase[c] = "idle"
    /\ phase' = [phase EXCEPT ![c] = IF sound THEN "running" ELSE "lost"]
    /\ value' = [value EXCEPT ![c] = NoValue]
    /\ answer' = [answer EXCEPT ![c] = NoAnswer]
    /\ UNCHANGED sound

ScriptReturns(c, v) ==
    /\ phase[c] = "running" /\ phase' = [phase EXCEPT ![c] = "returned"]
    /\ value' = [value EXCEPT ![c] = v]
    /\ UNCHANGED <<sound, answer>>

Answers(c) ==
    /\ phase[c] = "returned" /\ value[c] \in DOMAIN Answer
    /\ phase' = [phase EXCEPT ![c] = "answered"]
    /\ answer' = [answer EXCEPT ![c] = Answer[value[c]]]
    /\ UNCHANGED <<sound, value>>

\* The script throws or does not exist, or its value has another shape.
NoGood(c) ==
    \/ phase[c] = "running"
    \/ phase[c] = "returned" /\ value[c] \notin DOMAIN Answer
Refuses(c) ==
    /\ NoGood(c)
    /\ phase' = [phase EXCEPT ![c] = "answered"]
    /\ answer' = [answer EXCEPT ![c] = Error]
    /\ UNCHANGED <<sound, value>>
ProcessEnds ==
    /\ ~sound \/ \E c \in Callers : NoGood(c)
    /\ phase' = [c \in Callers |-> "gone"]
    /\ answer' = [c \in Callers |-> NoAnswer]
    /\ UNCHANGED <<sound, value>>

\* The text of a script's error is too long for the memory it is put into.
Damage ==
    /\ \E c \in Callers : NoGood(c)
    /\ sound' = FALSE
    /\ phase' = [c \in Callers |-> IF phase[c] = "idle" THEN "idle" ELSE "lost"]
    /\ value' = [c \in Callers |-> NoValue]
    /\ answer' = [c \in Callers |-> IF phase[c] = "idle" THEN answer[c] ELSE NoAnswer]
AnswersAnyhow(c) ==
    /\ phase[c] = "lost" /\ phase' = [phase EXCEPT ![c] = "idle"]
    /\ \E r \in Anything : answer' = [answer EXCEPT ![c] = r]
    /\ UNCHANGED <<sound, value>>

Back(c) ==
    /\ phase[c] = "answered" /\ phase' = [phase EXCEPT ![c] = "idle"]
    /\ UNCHANGED <<sound, value, answer>>

Next ==
    \/ \E c \in Callers : Call(c) \/ Answers(c) \/ Refuses(c) \/ AnswersAnyhow(c) \/ Back(c)
    \/ \E c \in Callers, v \in Values : ScriptReturns(c, v)
    \/ ProcessEnds \/ Damage

Spec == Init /\ [][Next]_handlers
=============================================================================
