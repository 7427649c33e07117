------------------------------ MODULE Connection ------------------------------
(***************************************************************************)
(* The connection of SwitchBeeWSClient as its users see it: whether it is  *)
(* there and logged in, whether a token is cached, and who waits for a     *)
(* reply on it.  WSClient implements it; Coordinator takes the order of    *)
(* its steps for granted.                                                  *)
(***************************************************************************)

CONSTANT Callers   \* those who send commands

VARIABLES link,    \* down, login (open, but not logged in yet), up
          token,   \* is a token cached?
          waiting  \* callers whose command waits for its reply

vars == <<link, token, waiting>>

Init == link = "down" /\ token = FALSE /\ waiting = {}

\* The socket closes.  Who waited is told so now or later.
Drop ==
  /\ link # "down" /\ link' = "down"
  /\ waiting' \in SUBSET waiting
  /\ UNCHANGED token

\* There is no new connection while a command still waits on the last one.
Reconnect ==
  /\ link = "down" /\ waiting = {}
  /\ link' = "login"
  /\ UNCHANGED <<token, waiting>>

LoginOk ==
  /\ link = "login" /\ link' = "up"
  /\ token' = TRUE
  /\ UNCHANGED waiting

\* Commands are sent and end; one that is refused clears the token and one that
\* has logged in again sets it.
Use ==
  /\ link # "down"
  /\ token' \in BOOLEAN /\ waiting' \in SUBSET Callers
  /\ UNCHANGED link

\* Without a connection commands end and none is sent.
WindDown ==
  /\ link = "down"
  /\ token' \in BOOLEAN /\ waiting' \in SUBSET waiting
  /\ UNCHANGED link

Next == Drop \/ Reconnect \/ LoginOk \/ Use \/ WindDown

Spec == Init /\ [][Next]_vars

===============================================================================
