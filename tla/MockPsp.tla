------------------------------- MODULE MockPsp -------------------------------
(***************************************************************************)
(* The mock payment service provider (crates/mock-psp) and the HTTP client *)
(* through which the invoice service calls it (invoice-service psp/mod.rs).*)
(*                                                                         *)
(* A caller is a task of the invoice service with at most one POST /charge *)
(* outstanding.  The PSP's handler looks its idempotency key up, sleeps,   *)
(* and only then records the outcome: lookup and record are two steps.     *)
(* When a caller gives up, the execution it started either dies with the   *)
(* connection or goes on unobserved in a slot.                             *)
(***************************************************************************)
EXTENDS Naturals, Sequences

CONSTANTS
  Callers,         \* tasks of the invoice service that call the PSP
  Slots,           \* room for executions that outlive their caller
  PspKeys,         \* idempotency keys, as the PSP sees them
  Tokens,          \* card tokens
  Amounts,         \* amounts in cents
  MaxPspRestarts   \* bound: how often the PSP process restarts

\* tok_card_declined stands for both declining tokens: they differ in the
\* failure code only.  tok_unknown is any token the mock does not know.
CardTokens == {"tok_success", "tok_card_declined", "tok_timeout",
               "tok_network_error", "tok_unknown"}

ASSUME PspAssumption ==
  /\ Tokens \subseteq CardTokens
  /\ Callers \cap Slots = {}
  /\ MaxPspRestarts \in Nat

VARIABLES
  seen,            \* idempotency key -> recorded outcome, in the PSP's memory
  charges,         \* history: the money movements; psp_ref is the index
  calls,           \* the outstanding call of each caller and slot
  restarts         \* how often the PSP has restarted

pspVars == <<seen, charges, calls, restarts>>

-----------------------------------------------------------------------------
(* Requests, outcomes and answers                                          *)

ChargeRequest == [key : PspKeys, token : Tokens, amount : Amounts]

Succeeded(ref) == [status |-> "succeeded", ref |-> ref]
Failed         == [status |-> "failed"]
ChargeOutcome  == [status : {"succeeded"}, ref : Nat] \cup {Failed}
NotSeen        == [status |-> "none"]

ServerError == [status |-> "server_error"]     \* HTTP 500 for tok_network_error
BadRequest  == [status |-> "bad_request"]      \* HTTP 400 for an unknown token
Reset       == [status |-> "reset"]            \* the PSP died under the call
Answers     == ChargeOutcome \cup {ServerError, BadRequest, Reset}

NoCall           == [stage |-> "none"]
Sent(req)        == [stage |-> "sent", req |-> req]
Sleeping(req)    == [stage |-> "sleeping", req |-> req]
Answered(req, ans) == [stage |-> "answered", req |-> req, answer |-> ans]

Calls == {NoCall}
           \cup [stage : {"sent", "sleeping"}, req : ChargeRequest]
           \cup [stage : {"answered"}, req : ChargeRequest, answer : Answers]

Waiting(c) == calls[c].stage \in {"sent", "sleeping"}

PspTypeOK ==
  /\ seen \in [PspKeys -> ChargeOutcome \cup {NotSeen}]
  /\ charges \in Seq(ChargeRequest)
  /\ calls \in [Callers \cup Slots -> Calls]
  /\ restarts \in 0 .. MaxPspRestarts

PspInit ==
  /\ seen = [k \in PspKeys |-> NotSeen]
  /\ charges = <<>>
  /\ calls = [c \in Callers \cup Slots |-> NoCall]
  /\ restarts = 0

-----------------------------------------------------------------------------
(* The PSP's POST /charge                                                  *)

\* A caller gets the answer; in a slot nobody is left to read it.
Reply(x, ans) ==
  calls' = [calls EXCEPT ![x] =
              IF x \in Callers THEN Answered(calls[x].req, ans) ELSE NoCall]

\* A known key gets its recorded outcome, whatever the request says.
ReplayRecorded(x) ==
  /\ calls[x].stage = "sent"
  /\ seen[calls[x].req.key] # NotSeen
  /\ Reply(x, seen[calls[x].req.key])
  /\ UNCHANGED <<seen, charges, restarts>>

\* tok_network_error and unknown tokens are refused at once, unrecorded.
Refuse(x) ==
  /\ calls[x].stage = "sent"
  /\ seen[calls[x].req.key] = NotSeen
  /\ \/ /\ calls[x].req.token = "tok_network_error"
        /\ Reply(x, ServerError)
     \/ /\ calls[x].req.token = "tok_unknown"
        /\ Reply(x, BadRequest)
  /\ UNCHANGED <<seen, charges, restarts>>

\* A fresh key: the lock on `seen` is released and the handler sleeps.
BeginCharge(x) ==
  /\ calls[x].stage = "sent"
  /\ seen[calls[x].req.key] = NotSeen
  /\ calls[x].req.token \in {"tok_success", "tok_card_declined", "tok_timeout"}
  /\ calls' = [calls EXCEPT ![x] = Sleeping(calls[x].req)]
  /\ UNCHANGED <<seen, charges, restarts>>

Moves(token) == token \in {"tok_success", "tok_timeout"}

\* After the sleep the outcome is decided by the token, recorded (over
\* whatever another execution recorded meanwhile) and returned.  The 30 s of
\* tok_timeout outlast every caller's 5 s deadline, so that sleep can end only
\* in a slot.
SettleCharge(x) ==
  /\ calls[x].stage = "sleeping"
  /\ calls[x].req.token = "tok_timeout" => x \in Slots
  /\ LET req     == calls[x].req
         outcome == IF Moves(req.token) THEN Succeeded(Len(charges) + 1) ELSE Failed
     IN  /\ charges' = IF Moves(req.token) THEN Append(charges, req) ELSE charges
         /\ seen' = [seen EXCEPT ![req.key] = outcome]
         /\ Reply(x, outcome)
  /\ UNCHANGED restarts

\* `seen` lives in memory: a restart forgets it, and every running execution
\* dies with the process (its caller sees the connection reset).
PspRestart ==
  /\ restarts < MaxPspRestarts
  /\ restarts' = restarts + 1
  /\ seen' = [k \in PspKeys |-> NotSeen]
  /\ calls' = [c \in Callers \cup Slots |->
                 IF calls[c].stage # "sleeping" THEN calls[c]
                 ELSE IF c \in Callers THEN Answered(calls[c].req, Reset) ELSE NoCall]
  /\ UNCHANGED charges

PspReceive(x) == ReplayRecorded(x) \/ Refuse(x) \/ BeginCharge(x)

PspHandle(x) == PspReceive(x) \/ SettleCharge(x)

-----------------------------------------------------------------------------
(* The client side: PspClient::charge                                      *)

\* charge() posts the request.
SendCharge(c, req) == calls' = [calls EXCEPT ![c] = Sent(req)]

\* The caller stops waiting (deadline, disconnect, crash) or has read its
\* answer.  An execution still running dies with the connection or, when the
\* PSP has not noticed, goes on in a free slot.
HangUp(c) ==
  \/ calls' = [calls EXCEPT ![c] = NoCall]
  \/ /\ Waiting(c)
     /\ \E s \in Slots :
          /\ calls[s] = NoCall
          /\ calls' = [calls EXCEPT ![c] = NoCall, ![s] = calls[c]]

\* The PspResult of an answer: only a parsed 2xx body is definite; a 5xx, a
\* body that does not parse (the 400) and a broken connection are unknown.
PspResult(ans) ==
  CASE ans.status = "succeeded" -> [kind |-> "Succeeded", ref |-> ans.ref]
    [] ans.status = "failed"    -> [kind |-> "Declined"]
    [] OTHER                    -> [kind |-> "Unknown"]

Unknown == [kind |-> "Unknown"]
=============================================================================
