---------------------------- MODULE PhoneTurns ------------------------------
(***************************************************************************)
(* private.phone_turn_results and the route that serves phone turns: a     *)
(* request claims the turn of its idempotency key under a leased token,    *)
(* resolves an answer, which is never the same twice, and stores it with   *)
(* that token; a repetition of a completed turn is answered from the row.  *)
(* Requests may come at any time, run at once, outlive their lease, and    *)
(* die or be given up by the caller between any two steps.                 *)
(*                                                                         *)
(* The answer of an attempt is named by the token of its claim.            *)
(***************************************************************************)
EXTENDS Integers

CONSTANTS
  Turns,        \* idempotency keys
  Bodies,       \* digests of request bodies
  TurnTokens,   \* processing tokens, gen_random_uuid()
  Handlers,     \* requests in hand at the route
  TurnAttempts, \* claims of a turn, 8 in the code
  TurnTicks,    \* the lease of a claim
  Absent        \* SQL null

ASSUME TurnAssumption ==
  /\ TurnAttempts \in Nat \ {0} /\ TurnTicks \in Nat \ {0}
  /\ Absent \notin TurnTokens \cup Bodies

VARIABLES
  turns,     \* the rows
  handlers,  \* the requests in hand
  answered,  \* history: answers given with status 200
  claimed    \* history: claims that were granted

turnVars == <<turns, handlers, answered, claimed>>

TurnRow ==
  [state : {"absent", "processing", "completed", "failed"}, body : Bodies \cup {Absent},
   token : TurnTokens \cup {Absent}, lease : 0 .. TurnTicks, attempts : 0 .. TurnAttempts,
   answer : TurnTokens \cup {Absent}]
NoTurn == [state |-> "absent", body |-> Absent, token |-> Absent, lease |-> 0,
           attempts |-> 0, answer |-> Absent]

FreeHandler == [phase |-> "free", turn |-> Absent, token |-> Absent]

\* The third check constraint of the table is part of the type.
TurnTypeOK ==
  /\ turns \in [Turns -> TurnRow]
  /\ \A u \in Turns :
       /\ turns[u].state = "processing" <=> turns[u].token # Absent
       /\ turns[u].state = "completed" <=> turns[u].answer # Absent
  /\ handlers \in [Handlers ->
       [phase : {"free", "resolving", "failing"}, turn : Turns \cup {Absent},
        token : TurnTokens \cup {Absent}]]
  /\ answered \subseteq [turn : Turns, answer : TurnTokens]
  /\ claimed \subseteq [turn : Turns, token : TurnTokens, attempt : 1 .. TurnAttempts]

TurnInit ==
  /\ turns = [u \in Turns |-> NoTurn]
  /\ handlers = [h \in Handlers |-> FreeHandler]
  /\ answered = {} /\ claimed = {}

-----------------------------------------------------------------------------
(* civya_service_claim_phone_turn, as the first step of a request.         *)

Granted(h, u, row, t) ==
  /\ t \notin {c.token : c \in claimed}
  /\ turns' = [turns EXCEPT ![u] =
       [row EXCEPT !.state = "processing", !.token = t, !.lease = TurnTicks, !.attempts = @ + 1]]
  /\ claimed' = claimed \cup {[turn |-> u, token |-> t, attempt |-> row.attempts + 1]}
  /\ handlers' = [handlers EXCEPT ![h] = [phase |-> "resolving", turn |-> u, token |-> t]]
  /\ UNCHANGED answered

TurnNew(h, u, b, t) ==
  /\ handlers[h] = FreeHandler /\ turns[u].state = "absent"
  /\ Granted(h, u, [NoTurn EXCEPT !.body = b], t)

\* Mutant: whether the turn is completed is not looked at.
OpenForAll(u) == turns[u].lease = 0
\* Neither completed nor in hand.
Open(u) == turns[u].state = "failed" \/ (turns[u].state = "processing" /\ turns[u].lease = 0)

TurnReclaim(h, u, b, t) ==
  /\ handlers[h] = FreeHandler /\ turns[u].state # "absent" /\ turns[u].body = b
  /\ Open(u) /\ turns[u].attempts < TurnAttempts
  /\ Granted(h, u, turns[u], t)

\* The row u without its claim, and failed.
FailedRow(u) == [turns[u] EXCEPT !.state = "failed", !.token = Absent, !.lease = 0]

TurnExhausted(u, b) ==
  /\ turns[u].state # "absent" /\ turns[u].body = b
  /\ Open(u) /\ turns[u].attempts = TurnAttempts
  /\ turns' = [turns EXCEPT ![u] = FailedRow(u)]
  /\ UNCHANGED <<handlers, answered, claimed>>

\* A completed turn is answered from its row.  A turn in hand is answered 409 and
\* one of another body raises an exception: neither changes anything.
TurnReplay(u, b) ==
  /\ turns[u].state = "completed" /\ turns[u].body = b
  /\ answered' = answered \cup {[turn |-> u, answer |-> turns[u].answer]}
  /\ UNCHANGED <<turns, handlers, claimed>>

-----------------------------------------------------------------------------
(* The rest of a request.                                                  *)

HoldsTurn(u, t) == turns[u].state = "processing" /\ turns[u].token = t

\* civya_service_finish_phone_turn; a claim that was lost is a 503.  The
\* acknowledgement of the store may be lost: the request then fails the turn.
FinishTurn(h) ==
  LET u == handlers[h].turn
      held == HoldsTurn(u, handlers[h].token) /\ turns[u].lease > 0
      row == [turns[u] EXCEPT !.state = "completed", !.answer = handlers[h].token,
                              !.token = Absent, !.lease = 0]
  IN /\ handlers[h].phase = "resolving"
     /\ turns' = IF held THEN [turns EXCEPT ![u] = row] ELSE turns
     /\ \/ /\ handlers' = [handlers EXCEPT ![h] = FreeHandler]
           /\ answered' = IF held
                          THEN answered \cup {[turn |-> u, answer |-> handlers[h].token]}
                          ELSE answered
        \/ /\ handlers' = [handlers EXCEPT ![h].phase = "failing"]
           /\ UNCHANGED answered
     /\ UNCHANGED claimed

\* processPublicPhoneTurn, or the call of the store, throws.
Throws(h) ==
  /\ handlers[h].phase = "resolving"
  /\ handlers' = [handlers EXCEPT ![h].phase = "failing"]
  /\ UNCHANGED <<turns, answered, claimed>>

\* civya_service_fail_phone_turn, which does not look at the lease; then 503.
FailTurn(h) ==
  LET u == handlers[h].turn IN
  /\ handlers[h].phase = "failing"
  /\ turns' = IF HoldsTurn(u, handlers[h].token)
              THEN [turns EXCEPT ![u] = FailedRow(u)]
              ELSE turns
  /\ handlers' = [handlers EXCEPT ![h] = FreeHandler]
  /\ UNCHANGED <<answered, claimed>>

TurnDies(h) ==
  /\ handlers[h] # FreeHandler
  /\ handlers' = [handlers EXCEPT ![h] = FreeHandler]
  /\ UNCHANGED <<turns, answered, claimed>>

TurnTick ==
  /\ \E u \in Turns : turns[u].lease > 0
  /\ turns' = [u \in Turns |->
       [turns[u] EXCEPT !.lease = IF @ = 0 THEN 0 ELSE @ - 1]]
  /\ UNCHANGED <<handlers, answered, claimed>>

TurnNext ==
  \/ \E h \in Handlers, u \in Turns, b \in Bodies, t \in TurnTokens :
       TurnNew(h, u, b, t) \/ TurnReclaim(h, u, b, t)
  \/ \E u \in Turns, b \in Bodies : TurnExhausted(u, b) \/ TurnReplay(u, b)
  \/ \E h \in Handlers : FinishTurn(h) \/ Throws(h) \/ FailTurn(h) \/ TurnDies(h)
  \/ TurnTick

TurnSpec == TurnInit /\ [][TurnNext]_turnVars

-----------------------------------------------------------------------------
\* "A replay of the same provider item returns the identical approved result"
\* (docs/plans/2026-07-17-pstn-shared-protocol.md:64-65): whatever attempts fail,
\* outlive their lease or are repeated, every answer given to a turn is the one
\* its row keeps, that of its last attempt.
OneAnswer ==
  \A a \in answered :
    /\ turns[a.turn].answer = a.answer
    /\ [turn |-> a.turn, token |-> a.answer, attempt |-> turns[a.turn].attempts] \in claimed

\* The rows are well-formed, and a turn has one answer.
TurnsInvariant == TurnTypeOK /\ OneAnswer
=============================================================================
