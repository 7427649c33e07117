---------------------------- MODULE WSTokenProofs ----------------------------
(***************************************************************************)
(* What one expiry of the token may cost, and how the token is lost for    *)
(* good, for any number of commands, reconnects and faults.                *)
(***************************************************************************)
EXTENDS WSConnectionProofs

-----------------------------------------------------------------------------
(* The inductive invariant *)

\* A token that was issued after the CU had forgotten one, and is in force for as
\* long as it has not forgotten another.
Renewed(tok) ==
  /\ tok # NoToken /\ Forgotten >= 1
  /\ (valid /\ tok = issued) \/ Forgotten >= 2

\* r has seen INVALID_TOKEN, and has not sent its command again.
SawRefusal(r) ==
  pc[r] = "lockq" \/ (Waiting(r) /\ (frame[r].kind = "LOGIN" \/ fut[r].st = "bad_token"))

\* No token is around that the CU has not issued, and commands are sent with one.
TokensIssued ==
  /\ valid => issued >= 1
  /\ token <= issued
  /\ starter = "returned" => token # NoToken \/ Forgotten >= 1
  /\ \A m \in toClient : m.tok <= issued
  /\ \A t \in Tasks : fut[t].tok <= issued /\ frame[t].tok <= issued
  /\ \A t \in Tasks : pc[t] = "sendq" /\ frame[t].kind # "LOGIN" => frame[t].tok # NoToken
  /\ \A f \in toCU : f.kind # "LOGIN" => f.tok # NoToken /\ f.tok <= issued

\* Retries carry a renewed token, on the wire and before.
RetriesRenewed ==
  /\ \A f \in toCU : f.kind = "RETRY" => Renewed(f.tok)
  /\ \A t \in Tasks : pc[t] = "sendq" /\ frame[t].kind = "RETRY" => Renewed(frame[t].tok)

\* A reply that refuses the token, and one that answers the re-LOGIN of a command.
RepliesTrue ==
  /\ \A m \in toClient : m.st = "bad_token" => Forgotten >= 1
  /\ \A m \in toClient, r \in Requests : Waiting(r) /\ m.id = frame[r].id =>
       /\ m.st = "bad_token" /\ frame[r].kind # "CMD" => Forgotten >= 2
       /\ m.st = "ok" /\ frame[r].kind = "LOGIN" => Renewed(m.tok)

\* The same of what a command has been told.
FuturesTrue ==
  \A r \in Requests :
    /\ SawRefusal(r) => Forgotten >= 1
    /\ Waiting(r) /\ fut[r].st = "no_token" => Forgotten >= 1
    /\ Waiting(r) /\ fut[r].st = "bad_token" /\ frame[r].kind # "CMD" => Forgotten >= 2
    /\ Waiting(r) /\ fut[r].st = "ok" /\ frame[r].kind = "LOGIN" => Renewed(fut[r].tok)

TokenInv == /\ TokensIssued /\ RetriesRenewed /\ RepliesTrue /\ FuturesTrue
            /\ RefusalNeedsExpiry

-----------------------------------------------------------------------------
(* Steps of the client *)

\* A step that issues no command and hands out no reply: what is new on the wire
\* was queued before, who waits waited already, and who ends says what it saw.
LEMMA TokenQuiet ==
  ASSUME TypeOK, TokenInv,
         UNCHANGED <<valid, issued, token>>,
         starter' = "returned" => starter = "returned",
         toClient' \subseteq toClient,
         \A f \in toCU' : f \in toCU \/ \E t \in Tasks :
           pc[t] = "sendq" /\ f.kind = frame[t].kind /\ f.tok = frame[t].tok,
         \A t \in Tasks :
           /\ frame'[t] = frame[t] \/ frame'[t].tok = NoToken
           /\ \/ fut'[t] = fut[t]
              \/ /\ fut'[t].tok = NoToken
                 /\ fut'[t].st \notin {"ok", "bad_token", "no_token"}
           /\ Waiting(t)' => Waiting(t) /\ frame'[t] = frame[t]
           /\ pc'[t] = "sendq" => pc[t] = "sendq",
         \A r \in Requests :
           /\ pc'[r] = "lockq" => SawRefusal(r)
           /\ \/ outcome'[r] = outcome[r]
              \/ outcome'[r] = fut[r].st /\ Waiting(r) /\ ~Relogs(r)
              \/ outcome'[r] \notin {"bad_token", "no_token"}
  PROVE  TokenInv'
<1> USE TaskSets
<1>1. /\ Forgotten' = Forgotten
      /\ \A tok : Renewed(tok)' = Renewed(tok)
  BY DEF Forgotten, Renewed
<1>2. TokensIssued'
  <2>1. 0 <= issued
    BY DEF TypeOK, CuType
  <2>2. \A t \in Tasks : fut'[t].tok <= issued' /\ frame'[t].tok <= issued'
    BY <2>1 DEF TokenInv, TokensIssued, NoToken
  <2>3. \A t \in Tasks :
          pc'[t] = "sendq" /\ frame'[t].kind # "LOGIN" => frame'[t].tok # NoToken
    BY DEF TokenInv, TokensIssued, Waiting
  <2>4. \A f \in toCU' : f.kind # "LOGIN" => f.tok # NoToken /\ f.tok <= issued'
    BY DEF TokenInv, TokensIssued
  <2>5. \A m \in toClient' : m.tok <= issued'
    BY DEF TokenInv, TokensIssued
  <2> QED
    BY <1>1, <2>2, <2>3, <2>4, <2>5 DEF TokenInv, TokensIssued
<1>3. RetriesRenewed'
  BY <1>1 DEF TokenInv, RetriesRenewed, Waiting
<1>4. RepliesTrue'
  BY <1>1 DEF TokenInv, RepliesTrue
<1>5. FuturesTrue'
  BY <1>1 DEF TokenInv, FuturesTrue, SawRefusal
<1>6. RefusalNeedsExpiry'
  BY <1>1 DEF TokenInv, RefusalNeedsExpiry, FuturesTrue, Relogs, SawRefusal
<1> QED
  BY <1>2, <1>3, <1>4, <1>5, <1>6 DEF TokenInv

\* What the lemmas on a command of t that is issued have in common: the tokens of
\* the CU stay, and the client gives one up only for a forgotten one.
Issues(t, kind) ==
  /\ UNCHANGED <<valid, issued, outcome>>
  /\ toClient' \subseteq toClient
  /\ starter' = "returned" => starter = "returned"
  /\ token' <= issued /\ (token' = token \/ Forgotten >= 1)
  /\ kind = "LOGIN" => t = Sup \/ Forgotten >= 1

\* A command goes out, or queues for the send lock; a retry has a renewed token.
LEMMA TokenRegister ==
  ASSUME TypeOK, IdInv, TokenInv, NEW t \in Tasks, NEW kind \in Kinds, NEW tok \in Nat,
         NEW c \in Nat, NEW isUp \in BOOLEAN, Register(t, kind, tok, c, isUp),
         Issues(t, kind), tok <= issued,
         kind # "LOGIN" => tok # NoToken,
         kind = "RETRY" => Renewed(tok)
  PROVE  TokenInv'
<1> USE TaskSets
<1>1. /\ Forgotten' = Forgotten
      /\ \A k : Renewed(k)' = Renewed(k)
  BY DEF Forgotten, Renewed, Issues
<1>2. /\ frame' = [frame EXCEPT ![t] = [id |-> nextId, kind |-> kind, tok |-> tok]]
      /\ fut' = [fut EXCEPT ![t] = Future("pending")]
      /\ \E p \in {"sendq", "drain", "await"} : pc' = [pc EXCEPT ![t] = p]
      /\ \A f \in toCU' : f \in toCU \/ (f.kind = kind /\ f.tok = tok)
  BY DEF Register, Transmit
<1>3. /\ pc \in [Tasks -> PcValues] /\ DOMAIN frame = Tasks /\ DOMAIN fut = Tasks
      /\ issued \in Nat
  BY DEF TypeOK, CallsType, CuType
<1>4. TokensIssued'
  BY <1>1, <1>2, <1>3 DEF TokenInv, TokensIssued, Issues, Future, NoToken
<1>5. RetriesRenewed'
  BY <1>1, <1>2, <1>3 DEF TokenInv, RetriesRenewed
<1>6. RepliesTrue'
  <2>1. \A m \in toClient' : m.id # nextId
    <3>1. nextId \in Nat /\ \A m \in toClient : m.id \in Nat
      BY DEF TypeOK, CallsType, NetType
    <3> QED
      BY <3>1 DEF Issues, IdInv
  <2> QED
    BY <1>1, <1>2, <1>3, <2>1 DEF TokenInv, RepliesTrue, Waiting, Issues
<1>7. FuturesTrue'
  BY <1>1, <1>2, <1>3 DEF TokenInv, FuturesTrue, SawRefusal, Waiting, Issues, Future
<1>8. RefusalNeedsExpiry'
  BY <1>1 DEF TokenInv, RefusalNeedsExpiry, Issues
<1> QED
  BY <1>4, <1>5, <1>6, <1>7, <1>8 DEF TokenInv

\* A command that is turned away at once.
LEMMA TokenRaise ==
  ASSUME TypeOK, IdInv, TokenInv, NEW t \in Tasks, NEW kind \in Kinds,
         NEW st \in {"closed", "no_token"}, RaiseAtOnce(t, kind, st),
         Issues(t, kind), st = "no_token" => Forgotten >= 1
  PROVE  TokenInv'
<1> USE TaskSets
<1>1. /\ Forgotten' = Forgotten
      /\ \A k : Renewed(k)' = Renewed(k)
  BY DEF Forgotten, Renewed, Issues
<1>2. /\ frame' = [frame EXCEPT ![t] = [id |-> 0, kind |-> kind, tok |-> NoToken]]
      /\ fut' = [fut EXCEPT ![t] = Future(st)]
      /\ pc' = [pc EXCEPT ![t] = "await"] /\ toCU' = toCU
  BY DEF RaiseAtOnce
<1>3. /\ pc \in [Tasks -> PcValues] /\ DOMAIN frame = Tasks /\ DOMAIN fut = Tasks
      /\ issued \in Nat
  BY DEF TypeOK, CallsType, CuType
<1>4. TokensIssued'
  BY <1>1, <1>2, <1>3 DEF TokenInv, TokensIssued, Issues, Future, NoToken
<1>5. RetriesRenewed'
  BY <1>1, <1>2, <1>3 DEF TokenInv, RetriesRenewed
<1>6. RepliesTrue'
  <2>1. \A m \in toClient' : m.id # 0
    BY DEF Issues, IdInv
  <2> QED
    BY <1>1, <1>2, <1>3, <2>1 DEF TokenInv, RepliesTrue, Waiting, Issues
<1>7. FuturesTrue'
  BY <1>1, <1>2, <1>3 DEF TokenInv, FuturesTrue, SawRefusal, Waiting, Issues, Future
<1>8. RefusalNeedsExpiry'
  BY <1>1 DEF TokenInv, RefusalNeedsExpiry, Issues
<1> QED
  BY <1>4, <1>5, <1>6, <1>7, <1>8 DEF TokenInv

LEMMA TokenIssue ==
  ASSUME TypeOK, IdInv, TokenInv, NEW t \in Tasks, NEW kind \in Kinds, NEW tok \in Nat,
         Issue(t, kind, tok), Issues(t, kind), tok <= issued,
         kind # "LOGIN" /\ tok = NoToken => Forgotten >= 1,
         kind = "RETRY" => Renewed(tok)
  PROVE  TokenInv'
<1>1. ws \in Nat /\ up \in BOOLEAN
  BY DEF TypeOK, SocketType
<1>2. CASE RaiseAtOnce(t, kind, "closed")
  BY <1>2, TokenRaise
<1>3. CASE RaiseAtOnce(t, kind, "no_token") /\ kind # "LOGIN" /\ tok = NoToken
  BY <1>3, TokenRaise
<1>4. CASE Register(t, kind, tok, ws, up) /\ ~(kind # "LOGIN" /\ tok = NoToken)
  BY <1>1, <1>4, TokenRegister
<1> QED
  BY <1>2, <1>3, <1>4 DEF Issue

\* A reply is handed to the task that waits for it.
LEMMA TokenDispatch ==
  ASSUME TypeOK, IdInv, TokenInv, NEW m \in toClient, Dispatch(m)
  PROVE  TokenInv'
<1> USE TaskSets
<1>1. /\ UNCHANGED <<valid, issued, token, starter, pc, frame, outcome, toCU>>
      /\ toClient' \subseteq toClient
      /\ \A t \in Tasks :
           \/ fut'[t] = fut[t]
           \/ /\ fut'[t].st = m.st /\ fut'[t].tok = m.tok
              /\ Waiting(t) /\ m.id = frame[t].id
  BY DEF Dispatch, cuVars, lifeVars
<1>2. /\ Forgotten' = Forgotten
      /\ \A tok : Renewed(tok)' = Renewed(tok)
  BY <1>1 DEF Forgotten, Renewed
<1>3. m.st \in Replies
  BY DEF TypeOK, NetType
<1>4. TokensIssued' /\ RetriesRenewed'
  BY <1>1, <1>2 DEF TokenInv, TokensIssued, RetriesRenewed
<1>5. RepliesTrue' /\ RefusalNeedsExpiry'
  BY <1>1, <1>2 DEF TokenInv, RepliesTrue, RefusalNeedsExpiry, Waiting
<1>6. FuturesTrue'
  BY <1>1, <1>2, <1>3 DEF TokenInv, FuturesTrue, RepliesTrue, SawRefusal, Waiting, Replies
<1> QED
  BY <1>4, <1>5, <1>6 DEF TokenInv

-----------------------------------------------------------------------------
(* Steps of the Central Unit *)

\* However the CU's tokens move on, what was renewed stays so, or one more was
\* forgotten since.
TokensMoveOn ==
  \/ UNCHANGED <<valid, issued>>
  \/ ~valid /\ valid' = TRUE /\ issued' = issued + 1
  \/ valid /\ valid' = FALSE /\ UNCHANGED issued

LEMMA RenewedKept ==
  ASSUME TypeOK, TokensIssued, TokensMoveOn
  PROVE  /\ issued' \in Nat /\ issued' >= issued /\ (valid' => issued' >= 1)
         /\ Forgotten \in Nat /\ Forgotten' \in Nat /\ Forgotten' >= Forgotten
         /\ \A tok : Renewed(tok) => Renewed(tok)'
<1>1. issued \in Nat /\ valid \in BOOLEAN /\ (valid => issued >= 1)
  BY DEF TypeOK, CuType, TokensIssued
<1>2. /\ issued' \in Nat /\ issued' >= issued /\ (valid' => issued' >= 1)
      /\ Forgotten \in Nat /\ Forgotten' \in Nat /\ Forgotten' >= Forgotten
  BY <1>1 DEF TokensMoveOn, Forgotten
<1>3. ASSUME NEW tok, Renewed(tok) PROVE Renewed(tok)'
  BY <1>1, <1>3 DEF TokensMoveOn, Renewed, Forgotten
<1> QED
  BY <1>2, <1>3

\* The CU takes frame f and replies, if at all, with m.
LEMMA TokenReply ==
  ASSUME TypeOK, IdInv, TokenInv, NEW f \in toCU, NEW st \in Replies, NEW tok \in Nat,
         TokensMoveOn, UNCHANGED <<callVars, token, starter>>, toCU' \subseteq toCU,
         \A m \in toClient' : m \in toClient
                              \/ (m.id = f.id /\ m.st = st /\ m.tok = tok),
         tok <= issued',
         st = "bad_token" => f.kind # "LOGIN" /\ Forgotten' >= 1,
         st = "bad_token" /\ f.kind = "RETRY" => Forgotten' >= 2,
         st = "ok" /\ f.kind = "LOGIN" /\ Forgotten' >= 1 => Renewed(tok)'
  PROVE  TokenInv'
<1> USE TaskSets DEF callVars
<1>1. /\ issued \in Nat /\ issued' \in Nat /\ issued' >= issued /\ (valid' => issued' >= 1)
      /\ Forgotten \in Nat /\ Forgotten' \in Nat /\ Forgotten' >= Forgotten
      /\ \A k : Renewed(k) => Renewed(k)'
  BY RenewedKept DEF TokenInv, TypeOK, CuType
<1>2. TokensIssued'
  <2>1. /\ token \in Nat /\ \A m \in toClient : m.tok \in Nat
        /\ \A t \in Tasks : fut[t].tok \in Nat /\ frame[t].tok \in Nat
        /\ \A g \in toCU : g.tok \in Nat
    BY DEF TypeOK, CallsType, NetType, Frames, Wires
  <2> QED
    BY <1>1, <2>1 DEF TokenInv, TokensIssued
<1>3. RetriesRenewed'
  BY <1>1 DEF TokenInv, RetriesRenewed
<1>4. RepliesTrue'
  <2>1. \A r \in Requests : Waiting(r) /\ f.id = frame[r].id => f.kind = frame[r].kind
    BY DEF IdInv
  <2>2. \A r \in Requests : Waiting(r) /\ frame[r].kind = "LOGIN" => Forgotten >= 1
    BY DEF TokenInv, FuturesTrue, SawRefusal
  <2>3. f.kind \in {"CMD", "RETRY", "LOGIN"}
    BY DEF TypeOK, NetType, Wires, Kinds
  <2> QED
    BY <1>1, <2>1, <2>2, <2>3 DEF TokenInv, RepliesTrue, Waiting
<1>5. FuturesTrue'
  BY <1>1 DEF TokenInv, FuturesTrue, SawRefusal, Waiting
<1>6. RefusalNeedsExpiry'
  BY <1>1 DEF TokenInv, RefusalNeedsExpiry
<1> QED
  BY <1>2, <1>3, <1>4, <1>5, <1>6 DEF TokenInv

\* The CU loses a token, a frame or the connection, and answers nothing.
LEMMA TokenLoss ==
  ASSUME TypeOK, TokenInv, TokensMoveOn, UNCHANGED <<callVars, token, starter>>,
         toCU' \subseteq toCU, toClient' \subseteq toClient
  PROVE  TokenInv'
<1> USE TaskSets DEF callVars
<1>1. /\ issued \in Nat /\ issued' \in Nat /\ issued' >= issued /\ (valid' => issued' >= 1)
      /\ Forgotten \in Nat /\ Forgotten' \in Nat /\ Forgotten' >= Forgotten
      /\ \A k : Renewed(k) => Renewed(k)'
  BY RenewedKept DEF TokenInv, TypeOK, CuType
<1>2. TokensIssued'
  <2>1. /\ token \in Nat /\ \A m \in toClient : m.tok \in Nat
        /\ \A t \in Tasks : fut[t].tok \in Nat /\ frame[t].tok \in Nat
        /\ \A g \in toCU : g.tok \in Nat
    BY DEF TypeOK, CallsType, NetType, Frames, Wires
  <2> QED
    BY <1>1, <2>1 DEF TokenInv, TokensIssued
<1>3. RetriesRenewed' /\ RepliesTrue'
  BY <1>1 DEF TokenInv, RetriesRenewed, RepliesTrue, Waiting
<1>4. FuturesTrue' /\ RefusalNeedsExpiry'
  BY <1>1 DEF TokenInv, FuturesTrue, SawRefusal, Waiting, RefusalNeedsExpiry
<1> QED
  BY <1>2, <1>3, <1>4 DEF TokenInv

-----------------------------------------------------------------------------
(* Every step *)

LEMMA TokenInit == Init => TokenInv
BY TaskSets DEF Init, TokenInv, TokensIssued, RetriesRenewed, RepliesTrue, FuturesTrue,
   SawRefusal, Waiting, RefusalNeedsExpiry, Future, NoFrame, NoToken

\* The supervisor logs in: it alone issues nothing and brings a new token.
LEMMA TokenLogin == ASSUME TypeOK, TokenInv, LoginInv, SupLoginOk PROVE TokenInv'
<1> USE TaskSets
<1>1. /\ UNCHANGED <<valid, issued, frame, fut, outcome, toCU, toClient>>
      /\ token' = fut[Sup].tok /\ token' # NoToken
      /\ \A t \in Tasks : pc'[t] = pc[t] \/ pc'[t] = "idle"
      /\ \A r \in Requests : pc'[r] = pc[r]
  BY DEF SupLoginOk, LoginInv, Waiting, netVars, cuVars, TypeOK, CallsType
<1>2. /\ Forgotten' = Forgotten
      /\ \A tok : Renewed(tok)' = Renewed(tok)
  BY <1>1 DEF Forgotten, Renewed
<1>3. TokensIssued' /\ RetriesRenewed'
  BY <1>1, <1>2 DEF TokenInv, TokensIssued, RetriesRenewed
<1>4. RepliesTrue' /\ RefusalNeedsExpiry'
  BY <1>1, <1>2 DEF TokenInv, RepliesTrue, RefusalNeedsExpiry, Waiting
<1>5. FuturesTrue'
  BY <1>1, <1>2 DEF TokenInv, FuturesTrue, SawRefusal, Waiting
<1> QED
  BY <1>3, <1>4, <1>5 DEF TokenInv

\* The teardowns and the loops of the client, and stop().
LEMMA TokenLife ==
  ASSUME TypeOK, TokenInv,
         \/ Start \/ Stop \/ ConnectFails \/ SupLoginFails \/ SupLoginTimeout
         \/ SupReaderGone \/ SupFailClosed \/ SupReaderExited \/ SupExitClosed \/ SupWakes
         \/ StopStep \/ ReaderExits \/ ReaderCancelled \/ ReaderDies
  PROVE  TokenInv'
<1> USE TaskSets
<1>1. /\ UNCHANGED <<valid, issued, token, frame, outcome>>
      /\ toCU' = toCU /\ toClient' \subseteq toClient
      /\ starter' = "returned" => starter = "returned"
  BY DEF Start, Stop, ConnectFails, SupLoginFails, SupLoginTimeout, GiveUpLogin,
     CancelReader, CloseSocket, SupReaderGone, SupFailClosed, SupReaderExited,
     SupExitClosed, SupWakes, StopStep, StopTeardown, StopReaderGone, StopClosed,
     ReaderExits, ReaderCancelled, ReaderDies, callVars, cuVars, netVars, lifeVars
<1>2. fut' = fut \/ RejectPending
  BY DEF Start, Stop, ConnectFails, SupLoginFails, SupLoginTimeout, GiveUpLogin,
     SupReaderGone, SupFailClosed, SupReaderExited,
     SupExitClosed, SupWakes, StopStep, StopTeardown, StopReaderGone, StopClosed,
     ReaderExits, ReaderCancelled, ReaderDies, callVars
<1>3. pc' = pc \/ pc' = [pc EXCEPT ![Sup] = "idle"]
  BY DEF Start, Stop, ConnectFails, SupLoginFails, SupLoginTimeout, GiveUpLogin,
     SupReaderGone, SupFailClosed, SupReaderExited,
     SupExitClosed, SupWakes, StopStep, StopTeardown, StopReaderGone, StopClosed,
     ReaderExits, ReaderCancelled, ReaderDies, callVars
<1>4. \A t \in Tasks : fut'[t] = fut[t] \/ fut'[t] = Future("lost")
  BY <1>2 DEF RejectPending
<1>5. \A t \in Tasks : pc'[t] = pc[t] \/ (t = Sup /\ pc'[t] = "idle")
  BY <1>3 DEF TypeOK, CallsType
<1>6. \A t \in Tasks : Waiting(t)' => Waiting(t)
  BY <1>5 DEF Waiting
<1>7. \A r \in Requests : pc'[r] = "lockq" => SawRefusal(r)
  BY <1>5 DEF SawRefusal
<1> QED
  BY <1>1, <1>4, <1>5, <1>6, <1>7, TokenQuiet DEF Future

\* The steps of a command that issue nothing.
LEMMA TokenEnds ==
  ASSUME TypeOK, TokenInv, NEW r \in Requests,
         TokenRefused(r) \/ Return(r) \/ TimeoutStep(r) \/ Cancel(r)
  PROVE  TokenInv'
<1> USE TaskSets
<1>1. /\ UNCHANGED <<valid, issued, token, starter>>
      /\ toCU' = toCU /\ toClient' = toClient
  BY DEF TokenRefused, Return, TimeoutStep, CommandTimeout, ReloginTimeout, Cancel, Finish,
     netVars, cuVars, lifeVars
<1>2. CASE TokenRefused(r)
  <2>1. /\ UNCHANGED <<frame, fut, outcome>> /\ pc' = [pc EXCEPT ![r] = "lockq"]
        /\ SawRefusal(r)
    BY <1>2 DEF TokenRefused, SawRefusal, Relogs, Waiting
  <2>2. \A t \in Tasks : pc'[t] = IF t = r THEN "lockq" ELSE pc[t]
    BY <2>1 DEF TypeOK, CallsType
  <2>3. /\ \A t \in Tasks : Waiting(t)' => Waiting(t)
        /\ \A q \in Requests : pc'[q] = "lockq" => SawRefusal(q)
    BY <2>1, <2>2 DEF Waiting, SawRefusal
  <2> QED
    BY <1>1, <2>1, <2>2, <2>3, TokenQuiet
<1>3. CASE Return(r) \/ TimeoutStep(r) \/ Cancel(r)
  <2>1. PICK o : Finish(r, o) /\ \/ o = fut[r].st /\ Waiting(r) /\ ~Relogs(r)
                                 \/ o \in {"timeout", "login_timeout", "cancelled"}
    BY <1>3 DEF Return, TimeoutStep, CommandTimeout, ReloginTimeout, Cancel, Waiting
  <2>2. /\ pc' = [pc EXCEPT ![r] = "done"]
        /\ outcome' = [outcome EXCEPT ![r] = o]
        /\ frame' = [frame EXCEPT ![r] = NoFrame]
        /\ fut' = [fut EXCEPT ![r] = Future("none")]
    BY <2>1 DEF Finish
  <2>3. \A t \in Tasks :
          /\ pc'[t] = IF t = r THEN "done" ELSE pc[t]
          /\ frame'[t] = IF t = r THEN NoFrame ELSE frame[t]
          /\ fut'[t] = IF t = r THEN Future("none") ELSE fut[t]
    BY <2>2 DEF TypeOK, CallsType
  <2>4. \A q \in Requests : outcome'[q] = IF q = r THEN o ELSE outcome[q]
    BY <2>2 DEF TypeOK, CallsType
  <2>5. \A t \in Tasks : Waiting(t)' => Waiting(t) /\ t # r
    BY <2>3 DEF Waiting
  <2>6. \A q \in Requests : pc'[q] = "lockq" => SawRefusal(q)
    BY <2>3 DEF SawRefusal
  <2> QED
    BY <1>1, <2>1, <2>3, <2>4, <2>5, <2>6, TokenQuiet DEF Future, NoFrame
<1> QED
  BY <1>2, <1>3

\* A queued frame goes out, or a send ends.
LEMMA TokenSend ==
  ASSUME TypeOK, IdInv, TokenInv, NEW t \in Tasks, SendStep(t)
  PROVE  TokenInv'
<1> USE TaskSets
<1>1. /\ UNCHANGED <<valid, issued, token, starter, frame, outcome, toClient>>
      /\ \A f \in toCU' : f \in toCU \/ (/\ pc[t] = "sendq" /\ f.kind = frame[t].kind
                                         /\ f.tok = frame[t].tok)
  BY DEF SendStep, SendQueued, Drained, DrainFails, Transmit, netVars, cuVars, lifeVars
<1>2. /\ Waiting(t)
      /\ \E p \in {"drain", "await"} : pc' = [pc EXCEPT ![t] = p]
      /\ fut' = fut \/ fut' = [fut EXCEPT ![t] = Future("send_error")]
  BY DEF SendStep, SendQueued, Drained, DrainFails, Transmit, Waiting
<1>3. \A u \in Tasks :
        /\ pc'[u] = pc[u] \/ (u = t /\ pc'[u] \in {"drain", "await"})
        /\ fut'[u] = fut[u] \/ fut'[u] = Future("send_error")
  BY <1>2 DEF TypeOK, CallsType
<1>4. \A u \in Tasks : Waiting(u)' => Waiting(u)
  BY <1>2, <1>3 DEF Waiting
<1>5. \A q \in Requests : pc'[q] = "lockq" => SawRefusal(q)
  BY <1>3 DEF SawRefusal
<1> QED
  BY <1>1, <1>3, <1>4, <1>5, TokenQuiet DEF Future

\* Commands that are issued: by the supervisor, by a caller, by a re-LOGIN.
LEMMA TokenIssued ==
  ASSUME TypeOK, IdInv, TokenInv,
         Connect \/ \E r \in Requests : Call(r) \/ Relogin(r) \/ Retry(r)
  PROVE  TokenInv'
<1> USE TaskSets
<1>1. /\ issued \in Nat /\ token \in Nat /\ token <= issued
      /\ \A t \in Tasks : fut[t].tok \in Nat /\ fut[t].tok <= issued
      /\ NoToken \in Nat /\ NoToken <= issued
  BY DEF TypeOK, CuType, CallsType, TokenInv, TokensIssued, NoToken
<1>2. CASE Connect
  <2>0. conns + 1 \in Nat
    BY DEF TypeOK, SocketType
  <2>1. Register(Sup, "LOGIN", NoToken, conns + 1, TRUE)
    BY <1>2 DEF Connect
  <2>2. Issues(Sup, "LOGIN")
    BY <1>1, <1>2 DEF Connect, Issues, cuVars
  <2> QED
    BY <1>1, <2>0, <2>1, <2>2, TokenRegister DEF Kinds
<1>3. ASSUME NEW r \in Requests, Call(r) PROVE TokenInv'
  <2>1. Issue(r, "CMD", token) /\ Issues(r, "CMD")
    BY <1>1, <1>3 DEF Call, Issues, cuVars, lifeVars
  <2>2. token = NoToken => Forgotten >= 1
    BY <1>3 DEF Call, TokenInv, TokensIssued
  <2> QED
    BY <1>1, <2>1, <2>2, TokenIssue DEF Kinds
<1>4. ASSUME NEW r \in Requests, Relogin(r) PROVE TokenInv'
  <2>1. Forgotten >= 1
    BY <1>4 DEF Relogin, TokenInv, FuturesTrue, SawRefusal
  <2>2. Issue(r, "LOGIN", NoToken) /\ Issues(r, "LOGIN")
    BY <1>1, <1>4, <2>1 DEF Relogin, Issues, cuVars, lifeVars
  <2> QED
    BY <1>1, <2>2, TokenIssue DEF Kinds
<1>5. ASSUME NEW r \in Requests, Retry(r) PROVE TokenInv'
  <2>1. Renewed(fut[r].tok)
    BY <1>5 DEF Retry, Retries, TokenInv, FuturesTrue, Waiting
  <2>2. Issue(r, "RETRY", fut[r].tok) /\ Issues(r, "RETRY")
    BY <1>1, <1>5, <2>1 DEF Retry, Issues, Renewed, cuVars, lifeVars
  <2> QED
    BY <1>1, <2>1, <2>2, TokenIssue DEF Kinds, Renewed
<1> QED
  BY <1>2, <1>3, <1>4, <1>5

\* What the CU does.
LEMMA TokenUnit ==
  ASSUME TypeOK, IdInv, TokenInv, CuAnswers \/ CuFaults
  PROVE  TokenInv'
<1>1. /\ issued \in Nat /\ valid \in BOOLEAN /\ (valid => issued >= 1)
      /\ \A f \in toCU : f.tok \in Nat /\ f.kind \in Kinds
  BY DEF TypeOK, CuType, NetType, Wires, TokenInv, TokensIssued
<1>2. ASSUME NEW f \in toCU, CuLogsIn(f) PROVE TokenInv'
  <2>1. PICK tok \in Nat : tok = IF valid THEN issued ELSE issued + 1
    BY <1>1
  <2>2. valid' /\ issued' = tok /\ TokensMoveOn
    <3>1. CASE valid
      BY <1>1, <1>2, <2>1, <3>1 DEF CuLogsIn, TokensMoveOn
    <3>2. CASE ~valid
      BY <1>1, <1>2, <2>1, <3>2 DEF CuLogsIn, TokensMoveOn
    <3> QED
      BY <3>1, <3>2
  <2>3. UNCHANGED <<callVars, token, starter>> /\ toCU' \subseteq toCU
    BY <1>2 DEF CuLogsIn, CuVarsKept, lifeVars
  <2>4. \A m \in toClient' : m \in toClient \/ (m.id = f.id /\ m.st = "ok" /\ m.tok = tok)
    BY <1>2, <2>1 DEF CuLogsIn, Reply
  <2>5. tok <= issued' /\ (Forgotten' >= 1 => Renewed(tok)')
    BY <2>1, <2>2 DEF Renewed, Forgotten, NoToken
  <2> QED
    BY <2>1, <2>2, <2>3, <2>4, <2>5, TokenReply DEF Replies
<1>3. ASSUME NEW f \in toCU, CuExecutes(f) PROVE TokenInv'
  <2>1. /\ f.kind # "LOGIN" /\ TokensMoveOn /\ NoToken <= issued' /\ NoToken \in Nat
        /\ UNCHANGED <<callVars, token, starter>> /\ toCU' \subseteq toCU
    BY <1>1, <1>3 DEF CuExecutes, TokensMoveOn, CuVarsKept, lifeVars, NoToken
  <2>2. \A m \in toClient' :
          m \in toClient \/ (m.id = f.id /\ m.st = "ok" /\ m.tok = NoToken)
    BY <1>3 DEF CuExecutes, Reply
  <2> QED
    BY <2>1, <2>2, TokenReply DEF Replies
<1>4. ASSUME NEW f \in toCU, CuRefusesToken(f) PROVE TokenInv'
  <2>1. /\ f.kind # "LOGIN" /\ UNCHANGED <<valid, issued>> /\ NoToken <= issued'
        /\ UNCHANGED <<callVars, token, starter>> /\ toCU' \subseteq toCU
    BY <1>1, <1>4 DEF CuRefusesToken, CuVarsKept, lifeVars, NoToken
  <2>2. \A m \in toClient' :
          m \in toClient \/ (m.id = f.id /\ m.st = "bad_token" /\ m.tok = NoToken)
    BY <1>4 DEF CuRefusesToken, Reply
  <2>3. Forgotten' >= 1
    BY <1>1, <1>4, <2>1 DEF CuRefusesToken, TokenValid, TokenInv, TokensIssued, Forgotten,
       NoToken
  <2>4. f.kind = "RETRY" => Forgotten' >= 2
    BY <1>1, <1>4, <2>1 DEF CuRefusesToken, TokenValid, TokenInv, RetriesRenewed, Renewed,
       Forgotten
  <2> QED
    BY <2>1, <2>2, <2>3, <2>4, TokenReply DEF Replies, TokensMoveOn, NoToken
<1>5. ASSUME NEW f \in toCU, CuRejects(f) PROVE TokenInv'
  <2>1. /\ TokensMoveOn /\ NoToken <= issued' /\ NoToken \in Nat
        /\ UNCHANGED <<callVars, token, starter>> /\ toCU' \subseteq toCU
    BY <1>1, <1>5 DEF CuRejects, TokensMoveOn, CuVarsKept, lifeVars, NoToken
  <2>2. \A m \in toClient' :
          m \in toClient \/ (m.id = f.id /\ m.st = "rejected" /\ m.tok = NoToken)
    BY <1>5 DEF CuRejects, Reply
  <2> QED
    BY <2>1, <2>2, TokenReply DEF Replies
<1>6. ASSUME CuForgetsToken \/ CuDrops \/ \E f \in toCU : CuSilent(f) PROVE TokenInv'
  <2>1. /\ TokensMoveOn /\ UNCHANGED <<callVars, token, starter>>
        /\ toCU' \subseteq toCU /\ toClient' \subseteq toClient
    BY <1>6 DEF CuForgetsToken, CuDrops, CuSilent, TokensMoveOn, CuVarsKept, lifeVars,
       cuVars, netVars
  <2> QED
    BY <2>1, TokenLoss
<1> QED
  BY <1>2, <1>3, <1>4, <1>5, <1>6 DEF CuAnswers, CuFaults

LEMMA TokenNext ==
  ASSUME TypeOK, IdInv, LoginInv, TokenInv, [Next]_vars
  PROVE  TokenInv'
<1>1. CASE UNCHANGED vars
  BY <1>1, TokenLoss DEF vars, callVars, netVars, cuVars, lifeVars, TokensMoveOn
<1>2. ASSUME NEW m \in toClient, Dispatch(m) PROVE TokenInv'
  BY <1>2, TokenDispatch
<1> QED
  BY <1>1, <1>2, TokenLogin, TokenLife, TokenEnds, TokenSend, TokenIssued, TokenUnit
     DEF Next, SupStep, ReaderStep, RequestStep

\* Proves RefusalNeedsExpiry: one forgotten token fails no command that was sent,
\* however many are refused at once and log in beside each other.
THEOREM OneExpiryFailsNoCommand == Spec => []RefusalNeedsExpiry
<1>1. Init => LoginInv
  BY DEF Init, LoginInv, Waiting, Tasks
<1>2. TypeOK /\ IdInv /\ LoginInv /\ TokenInv /\ [Next]_vars => TokenInv' /\ LoginInv'
  BY TokenNext, LoginNext
<1>3. TokenInv => RefusalNeedsExpiry
  BY DEF TokenInv
<1> QED
  BY <1>1, <1>2, <1>3, TokenInit, InitType, NextType, IdInit, IdNext, PTL DEF Spec

-----------------------------------------------------------------------------
(* The wedge *)

\* Some command waits for the re-LOGIN lock or for its LOGIN.
ReloginUnderWay == \E r \in Requests : pc[r] = "lockq" \/ (Waiting(r) /\ frame[r].kind = "LOGIN")

\* A step that neither connects nor touches the token, and under which no re-LOGIN
\* comes to its end, does not lead into the wedge.
LEMMA WedgeKept ==
  ASSUME UNCHANGED <<ws, open, stopPc, token, sup>>,
         ReloginUnderWay => ReloginUnderWay', Wedged'
  PROVE  Wedged
BY DEF Wedged, SocketOpen, StopRequested, ReloginUnderWay

\* No teardown, no reconnect, no stop() and no LOGIN of the supervisor does.
LEMMA WedgeLife ==
  ASSUME TypeOK, LoginInv, Wedged',
         \/ Start \/ Stop \/ SupStep \/ SupLoginTimeout \/ ConnectFails \/ StopStep
         \/ ReaderExits
  PROVE  FALSE
<1>1. sup' = "run" /\ stopPc' = "none" /\ token' = NoToken /\ ws' \in open'
  BY DEF Wedged, SocketOpen, StopRequested
<1>2. CASE SupLoginOk
  BY <1>1, <1>2 DEF SupLoginOk, LoginInv, Waiting
<1>3. CASE Start \/ ConnectFails \/ Connect \/ SupReaderGone \/ SupReaderExited \/ SupWakes
  BY <1>1, <1>3 DEF Start, ConnectFails, Connect, SupReaderGone, SupReaderExited, SupWakes
<1>4. CASE SupFailClosed \/ SupExitClosed
  BY <1>1, <1>4 DEF SupFailClosed, SupExitClosed, AfterTeardown
<1>5. CASE SupLoginFails \/ SupLoginTimeout
  BY <1>1, <1>5 DEF SupLoginFails, SupLoginTimeout, GiveUpLogin
<1>6. CASE Stop \/ StopStep
  BY <1>1, <1>6 DEF Stop, StopStep, StopTeardown, StopReaderGone, StopClosed
<1>7. CASE ReaderExits
  BY <1>1, <1>7 DEF ReaderExits
<1> QED
  BY <1>2, <1>3, <1>4, <1>5, <1>6, <1>7 DEF SupStep

\* Nor do the reader, the sends and the Central Unit.
LEMMA WedgeOthers ==
  ASSUME TypeOK, Wedged',
         \/ \E m \in toClient : Dispatch(m)
         \/ ReaderCancelled \/ ReaderDies \/ CuAnswers \/ CuFaults
         \/ \E t \in Tasks : SendStep(t)
         \/ UNCHANGED vars
  PROVE  Wedged
<1> USE TaskSets
<1>1. UNCHANGED <<ws, open, stopPc, token, sup, frame>>
  BY DEF Dispatch, ReaderCancelled, ReaderDies, SendStep, SendQueued, Drained, DrainFails,
     CuAnswers, CuFaults, CuLogsIn, CuExecutes, CuRefusesToken, CuRejects, CuSilent,
     CuForgetsToken, CuDrops, CuVarsKept, vars, callVars, sockVars, lifeVars
<1>2. CASE \E t \in Tasks : SendStep(t)
  <2>1. PICK t \in Tasks : SendStep(t)
    BY <1>2
  <2>2. Waiting(t) /\ \E p \in {"drain", "await"} : pc' = [pc EXCEPT ![t] = p]
    BY <2>1 DEF SendStep, SendQueued, Drained, DrainFails, Transmit, Waiting
  <2>3. \A u \in Tasks : pc'[u] = pc[u] \/ (u = t /\ pc'[u] \in {"drain", "await"})
    BY <2>2 DEF TypeOK, CallsType
  <2>4. ReloginUnderWay => ReloginUnderWay'
    BY <1>1, <2>2, <2>3 DEF ReloginUnderWay, Waiting
  <2> QED
    BY <1>1, <2>4, WedgeKept
<1>3. CASE ~\E t \in Tasks : SendStep(t)
  <2>1. pc' = pc
    BY <1>3 DEF Dispatch, ReaderCancelled, ReaderDies,
       CuAnswers, CuFaults, CuLogsIn, CuExecutes, CuRefusesToken, CuRejects, CuSilent,
       CuForgetsToken, CuDrops, CuVarsKept, vars, callVars
  <2>2. ReloginUnderWay => ReloginUnderWay'
    BY <1>1, <2>1 DEF ReloginUnderWay, Waiting
  <2> QED
    BY <1>1, <2>2, WedgeKept
<1> QED
  BY <1>2, <1>3

\* Of the steps of a command only the end of one that has yet to log in does.
LEMMA WedgeCommand ==
  ASSUME TypeOK, TokenInv, Wedged', NEW r \in Requests,
         Call(r) \/ RequestStep(r) \/ TimeoutStep(r) \/ Cancel(r)
  PROVE  Wedged \/ ReloginGivenUp
<1> USE TaskSets
<1>0. pc \in [Tasks -> PcValues] /\ DOMAIN frame = Tasks /\ ~ReloginUnderWay'
  BY DEF TypeOK, CallsType, Wedged, ReloginUnderWay
<1>1. CASE Call(r)
  <2>1. UNCHANGED <<ws, open, stopPc, token, sup>> /\ pc[r] = "idle"
    BY <1>1 DEF Call, sockVars, lifeVars
  <2>2. \A t \in Tasks \ {r} : pc'[t] = pc[t] /\ frame'[t] = frame[t]
    BY <1>0, <1>1 DEF Call, Issue, RaiseAtOnce, Register, Transmit
  <2>3. ReloginUnderWay => ReloginUnderWay'
    BY <2>1, <2>2 DEF ReloginUnderWay, Waiting
  <2> QED
    BY <2>1, <2>3, WedgeKept
<1>2. CASE TokenRefused(r)
  BY <1>0, <1>2 DEF TokenRefused, ReloginUnderWay
<1>3. CASE Relogin(r)
  BY <1>0, <1>3 DEF Relogin, Issue, RaiseAtOnce, Register, Transmit, ReloginUnderWay, Waiting
<1>4. CASE Retry(r)
  BY <1>4 DEF Retry, Retries, Wedged, TokenInv, FuturesTrue, Waiting, Renewed
<1>5. CASE Return(r) \/ TimeoutStep(r) \/ Cancel(r)
  <2>1. /\ UNCHANGED <<ws, open, stopPc, token, sup>> /\ \E o : Finish(r, o)
        /\ pc[r] = "lockq" \/ Waiting(r)
    BY <1>5 DEF Return, TimeoutStep, CommandTimeout, ReloginTimeout, Cancel, Finish,
       sockVars, lifeVars, Waiting
  <2>2. \A t \in Tasks : /\ pc'[t] = IF t = r THEN "done" ELSE pc[t]
                         /\ t # r => frame'[t] = frame[t]
    BY <1>0, <2>1 DEF Finish
  <2>3. CASE pc[r] = "lockq" \/ frame[r].kind = "LOGIN"
    BY <2>2, <2>3 DEF ReloginGivenUp
  <2>4. CASE ~(pc[r] = "lockq" \/ frame[r].kind = "LOGIN")
    <3>1. ReloginUnderWay => ReloginUnderWay'
      BY <2>2, <2>4 DEF ReloginUnderWay, Waiting
    <3> QED
      BY <2>1, <3>1, WedgeKept
  <2> QED
    BY <2>3, <2>4
<1> QED
  BY <1>1, <1>2, <1>3, <1>4, <1>5 DEF RequestStep

\* Proves WedgedByRelogin: whatever the connection, stop() and the Central Unit do,
\* the client is left without a token on an open socket only by a command that ends
\* between the refusal it saw and the answer to its own LOGIN.
THEOREM OnlyReloginsWedge == Spec => WedgedByRelogin
<1>1. Init => LoginInv
  BY DEF Init, LoginInv, Waiting, Tasks
<1>2. TypeOK /\ IdInv /\ LoginInv /\ TokenInv /\ [Next]_vars => TokenInv' /\ LoginInv'
  BY TokenNext, LoginNext
<1>3. TypeOK /\ LoginInv /\ TokenInv /\ [Next]_vars =>
        [~Wedged /\ Wedged' => ReloginGivenUp]_vars
  BY WedgeLife, WedgeOthers, WedgeCommand DEF Next, ReaderStep
<1> QED
  BY <1>1, <1>2, <1>3, TokenInit, InitType, NextType, IdInit, IdNext, PTL
     DEF Spec, WedgedByRelogin

==============================================================================
