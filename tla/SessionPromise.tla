--------------------------- MODULE SessionPromise ---------------------------
(***************************************************************************)
(* What get_session (session.py) promises the code that calls it, with all *)
(* its inner steps taken as one.  The process has at most one session; a   *)
(* call ends with a session or an error and tells what it ends with.  A    *)
(* process may keep the engine's settings from one session to the next.    *)
(***************************************************************************)
CONSTANT Callers   \* threads of the process

VARIABLES
    session,   \* the live session: "none", "plain" or "native"
    kept,      \* does a session nobody chooses the settings of get the engine?
    stage,     \* is a thread's call "resting" or "working"?
    wish,      \* does its call ask for the engine, and must it have it?
    answer     \* what its last call ended with, and was it loud about it?

vars == <<session, kept, stage, wish, answer>>

(* "no" is to leave the engine out; only "never" takes it out.             *)
Wishes == [engine : {"yes", "no", "never"}, must : BOOLEAN]
Answers == [kind : {"none", "native", "plain", "error"}, loud : BOOLEAN]

NoAnswer == [kind |-> "none", loud |-> FALSE]

Quiet == \A c \in Callers : stage[c] = "resting"

(* The session that results from choosing nothing.                         *)
Unchosen == IF kept THEN "native" ELSE "plain"

Init ==
    /\ session = "none"
    /\ kept \in BOOLEAN
    /\ stage = [c \in Callers |-> "resting"]
    /\ wish \in [Callers -> Wishes]
    /\ answer = [c \in Callers |-> NoAnswer]

Call(c, w) ==
    /\ Quiet
    /\ stage' = [stage EXCEPT ![c] = "working"]
    /\ wish' = [wish EXCEPT ![c] = w]
    /\ answer' = [answer EXCEPT ![c] = NoAnswer]
    /\ UNCHANGED <<session, kept>>

End(c, a) ==
    /\ stage[c] = "working"
    /\ stage' = [stage EXCEPT ![c] = "resting"]
    /\ answer' = [answer EXCEPT ![c] = a]
    /\ UNCHANGED wish

(* A live session is handed back as it is, whatever was asked for.         *)
HandBack(c) ==
    /\ session # "none"
    /\ End(c, [kind |-> session, loud |-> TRUE])
    /\ UNCHANGED <<session, kept>>

(* What a wish for the engine may leave behind in the process, whether it  *)
(* was granted or not.                                                     *)
Keep(c) == kept' \in IF wish[c].engine = "yes" THEN {kept, TRUE} ELSE {kept}

(* The session asked for: a wish for the engine gets it, and a session     *)
(* without it needs no apology where the engine was not wanted.            *)
Build(c) ==
    /\ session = "none"
    /\ session' = CASE wish[c].engine = "yes"   -> "native"
                    [] wish[c].engine = "no"    -> Unchosen
                    [] wish[c].engine = "never" -> "plain"
    /\ \E loud \in IF wish[c].engine = "yes" THEN {FALSE} ELSE BOOLEAN :
           End(c, [kind |-> session', loud |-> loud])
    /\ Keep(c)

(* The engine asked for cannot be set up: said loudly, and never to those  *)
(* who must have it.                                                       *)
FallBack(c) ==
    /\ session = "none"
    /\ wish[c].engine = "yes" /\ ~wish[c].must
    /\ session' = Unchosen
    /\ End(c, [kind |-> session', loud |-> TRUE])
    /\ UNCHANGED kept

(* An error leaves no session behind that a later call would be handed.    *)
Refuse(c) ==
    /\ session = "none"
    /\ End(c, [kind |-> "error", loud |-> FALSE])
    /\ Keep(c)
    /\ UNCHANGED session

(* Sessions that others build and stop, between calls.                     *)
Others ==
    /\ Quiet
    /\ session' = IF session = "none" THEN Unchosen ELSE "none"
    /\ UNCHANGED <<kept, stage, wish, answer>>

Next ==
    \/ \E c \in Callers, w \in Wishes : Call(c, w)
    \/ \E c \in Callers : HandBack(c) \/ Build(c) \/ FallBack(c) \/ Refuse(c)
    \/ Others

Spec == Init /\ [][Next]_vars
=============================================================================
