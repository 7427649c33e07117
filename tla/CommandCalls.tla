---------------------------- MODULE CommandCalls ----------------------------
(***************************************************************************)
(* What SwitchBeeWSClient promises to a caller of operate(), of            *)
(* get_configuration() and of get_multiple_states(): each call ends at     *)
(* most once, takes effect on the Central Unit at most once, and what it   *)
(* returns or raises is true of that effect.                               *)
(***************************************************************************)
EXTENDS Naturals

CONSTANT Callers

VARIABLES phase,     \* idle, pending, done
          effects,   \* how often the Central Unit executed the call
          result     \* how the call ended

vars == <<phase, effects, result>>

\* Raised only when the Central Unit did not and will not execute the call.
Refusals == {"closed", "no_token", "bad_token", "rejected", "login_timeout"}
\* Raised when the caller cannot know.
Doubts == {"lost", "timeout", "cancelled", "send_error"}

Init == /\ phase = [c \in Callers |-> "idle"]
        /\ effects = [c \in Callers |-> 0]
        /\ result = [c \in Callers |-> "none"]

Begin(c) == /\ phase[c] = "idle"
            /\ phase' = [phase EXCEPT ![c] = "pending"]
            /\ UNCHANGED <<effects, result>>

\* Also after the call ended in doubt: its frame may still be under way.
TakeEffect(c) == /\ phase[c] # "idle" /\ effects[c] = 0
                 /\ result[c] \in Doubts \cup {"none"}
                 /\ effects' = [effects EXCEPT ![c] = 1]
                 /\ UNCHANGED <<phase, result>>

End(c, r) == /\ phase[c] = "pending"
             /\ r = "ok" => effects[c] = 1
             /\ r \in Refusals => effects[c] = 0
             /\ phase' = [phase EXCEPT ![c] = "done"]
             /\ result' = [result EXCEPT ![c] = r]
             /\ UNCHANGED effects

Next == \E c \in Callers :
          Begin(c) \/ TakeEffect(c) \/ \E r \in {"ok"} \cup Refusals \cup Doubts : End(c, r)

Spec == Init /\ [][Next]_vars

=============================================================================
