---------------------------- MODULE WSClientInv -----------------------------
(***************************************************************************)
(* The inductive invariants behind the safety properties of WSClient: TLC  *)
(* checks them on small instances, WSClientProofs proves them.             *)
(***************************************************************************)
EXTENDS WSClient

\* Which sockets and readers exist at each await of the supervisor and stop().
SocketInv ==
  /\ open \subseteq {ws} /\ NoConn \notin open
  /\ ws = NoConn => reader = "none"
  /\ starter = "idle" => sup = "off" /\ stopPc = "none" /\ ws = NoConn
  /\ sup \in {"connect", "sleep"} => ws = NoConn
  /\ sup \in {"fail_close", "exit_close"} \/ stopPc = "td_close" =>
       open = {} /\ reader = "none"
  /\ stopPc \in {"td_reader", "td_close", "stopped"} => sup = "off"
  /\ stopPc = "stopped" => ws = NoConn

\* Command ids are used once: what is under way with the id of a waiting task
\* belongs to that task, and nothing is under way for one not yet sent.
IdInv ==
  /\ nextId >= 1
  /\ \A id \in pending : 1 <= id /\ id < nextId
  /\ \A t \in Tasks : frame[t].id < nextId
  /\ \A f \in toCU : 1 <= f.id /\ f.id < nextId
  /\ \A m \in toClient : 1 <= m.id /\ m.id < nextId
  /\ \A t, u \in Tasks :
       Waiting(t) /\ Waiting(u) /\ frame[t].id = frame[u].id => t = u \/ frame[t].id = 0
  /\ \A t \in Tasks, f \in toCU : Waiting(t) /\ f.id = frame[t].id =>
       f.by = t /\ f.kind = frame[t].kind
  /\ \A t \in Tasks : pc[t] = "sendq" =>
       /\ 1 <= frame[t].id /\ fut[t].st \in {"pending", "lost"}
       /\ \A f \in toCU : f.id # frame[t].id
       /\ \A m \in toClient : m.id # frame[t].id

\* The Central Unit has not executed r and has nothing left to execute.
Untouched(r) ==
  /\ executed[r] = 0
  /\ \A f \in toCU : f.by = r => f.kind = "LOGIN"

\* A reply to the command (not the re-LOGIN) that r waits for.
AnswersCommand(m, r) ==
  /\ Waiting(r) /\ frame[r].kind # "LOGIN"
  /\ fut[r].st = "pending" /\ m.id = frame[r].id

\* r's command is executed, under way in one frame, or untouched; the reply
\* under way, the future and the outcome tell which.
EffectOf(r) ==
  /\ \A f, g \in toCU :
       f.by = r /\ g.by = r /\ f.kind # "LOGIN" /\ g.kind # "LOGIN" => f = g
  /\ \A f \in toCU : f.by = r /\ f.kind # "LOGIN" => executed[r] = 0
  /\ executed[r] \in {0, 1}
  /\ pc[r] \in {"idle", "sendq", "lockq"} => Untouched(r)
  /\ Waiting(r) /\ frame[r].kind = "LOGIN" => Untouched(r)
  /\ Waiting(r) /\ fut[r].st \in {"bad_token", "rejected", "closed", "no_token"} =>
       Untouched(r)
  /\ Waiting(r) /\ frame[r].kind # "LOGIN" /\ fut[r].st = "ok" => executed[r] = 1
  /\ Waiting(r) => fut[r].st # "none"
  /\ \A m \in toClient : AnswersCommand(m, r) =>
       IF m.st = "ok" THEN executed[r] = 1 ELSE Untouched(r)
  /\ IF pc[r] = "done"
       THEN /\ outcome[r] # "none"
            /\ outcome[r] = "ok" => executed[r] = 1
            /\ outcome[r] \in Calls!Refusals => Untouched(r)
       ELSE outcome[r] = "none"

EffectInv == \A r \in Requests : EffectOf(r)

InductiveInv == TypeOK /\ SocketInv /\ IdInv /\ EffectInv /\ WaiterResolvable

=============================================================================
