-------------------------------- MODULE Calls --------------------------------
(***************************************************************************)
(* What the gateway promises its callers: a call that was let in comes to  *)
(* an end, once, and gets an answer only if the function it calls replied  *)
(* to it.                                                                  *)
(***************************************************************************)
CONSTANT Call

VARIABLES
    outcome,  \* of each call
    replied   \* calls that a function has replied to

callVars == <<outcome, replied>>

Outcome == {"none", "open", "answered", "refused", "timed out", "cut"}

CallsInit == outcome = [c \in Call |-> "none"] /\ replied = {}

Open(c) ==
    /\ outcome[c] = "none"
    /\ outcome' = [outcome EXCEPT ![c] = "open"]
    /\ UNCHANGED replied

Refuse(c) ==
    /\ outcome[c] \in {"none", "open"}
    /\ outcome' = [outcome EXCEPT ![c] = "refused"]
    /\ UNCHANGED replied

\* A function may reply to a call that has ended.
Reply(c) ==
    /\ outcome[c] # "none"
    /\ replied' = replied \cup {c}
    /\ UNCHANGED outcome

Answer(c) ==
    /\ outcome[c] = "open" /\ c \in replied
    /\ outcome' = [outcome EXCEPT ![c] = "answered"]
    /\ UNCHANGED replied

TimeOut(c) ==
    /\ outcome[c] = "open"
    /\ outcome' = [outcome EXCEPT ![c] = "timed out"]
    /\ UNCHANGED replied

\* The gateway ends and cuts its callers off.
Cut ==
    /\ outcome' = [c \in Call |-> IF outcome[c] = "open" THEN "cut" ELSE outcome[c]]
    /\ UNCHANGED replied

Ends(c) == outcome[c] = "open" /\ (Refuse(c) \/ Answer(c) \/ TimeOut(c) \/ Cut)

CallsNext == Cut \/ \E c \in Call : Open(c) \/ Refuse(c) \/ Reply(c) \/ Answer(c) \/ TimeOut(c)

CallsSafe == CallsInit /\ [][CallsNext]_callVars

CallsSpec == CallsSafe /\ \A c \in Call : WF_callVars(Ends(c))
=============================================================================
