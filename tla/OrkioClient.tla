---------------------------- MODULE OrkioClient ----------------------------
(***************************************************************************)
(* The client of ORKIO in one process (integrations/orkio/client.py): the   *)
(* attempts of a call and the pauses between them, the classes of failure   *)
(* (retry_policy.py), and the circuit breaker that all threads share; and   *)
(* the start-up check of config.py that the execution lease outlasts the    *)
(* retry window.                                                            *)
(*                                                                          *)
(* Time is counted in ticks, Unit of them to the second.  httpx applies the *)
(* timeout to each phase of a request (the connection, a piece sent, a      *)
(* piece of the answer) and not to the request: an attempt may use Timeout  *)
(* anew after each piece, and only a bound of the model limits how many     *)
(* there are.  What takes no time in the code but computation takes none    *)
(* here, and neither does the resolution of the host's name, which no       *)
(* timeout covers.                                                          *)
(***************************************************************************)
EXTENDS Integers, FiniteSets

CONSTANTS
    Caller,     \* threads that call ORKIO
    Unit,       \* ticks per second
    Timeout,    \* orkio_timeout_seconds, in ticks
    Backoff,    \* orkio_retry_backoff_seconds, in ticks
    Attempts,   \* orkio_max_attempts
    Threshold,  \* orkio_circuit_failure_threshold
    Cooldown,   \* orkio_circuit_cooldown_seconds, in ticks
    Lease,      \* orkio_execution_lease_seconds, in ticks
    MaxPieces   \* bound on the pieces of a call: phases ended, chunks come in

\* minimum_lease, as int() truncates it.
MinimumLease ==
    Unit * ((Timeout * Attempts + Backoff * (Attempts - 1) + 10 * Unit)
              \div Unit)

ASSUME CallersOK == IsFiniteSet(Caller)

\* What Settings accepts; a negative backoff or cool-down and a threshold below
\* one, which it does not refuse, are left out.
ASSUME SettingsOK ==
    /\ Unit \in Nat \ {0}
    /\ Timeout \in 1 .. 60 * Unit
    /\ Backoff \in Nat
    /\ Attempts \in 1 .. 3
    /\ Threshold \in Nat \ {0}
    /\ Cooldown \in Nat
    /\ Lease \in MinimumLease .. 600 * Unit

ASSUME BoundOK == MaxPieces \in Nat

VARIABLES
    failures,  \* _failures
    cooling,   \* the ticks left before _opened_at is a cool-down old
    call       \* what each thread is doing

callVars == <<failures, cooling, call>>

-----------------------------------------------------------------------------
\* left: ticks before the phase times out or the pause is over.  Two histories
\* of the call: spent, the ticks since it began, and pieces, the times that its
\* requests got on before they ended.
Busy == [at : {"posting", "pausing"}, attempt : 0 .. 2, left : Nat,
         spent : Nat, pieces : 0 .. MaxPieces]
Rest == [at |-> "rest"]

CallTypeOK ==
    /\ failures \in Nat
    /\ cooling \in 0 .. Cooldown
    /\ call \in [Caller -> {Rest} \cup Busy]

CallInit ==
    /\ failures = 0
    /\ cooling = 0
    /\ call = [c \in Caller |-> Rest]

-----------------------------------------------------------------------------
(* retry_policy.py.                                                         *)

AuthTerminal     == {401, 403}
ContractTerminal == {400, 404, 409, 410, 412, 415, 422}
Retryable        == {408, 429, 502, 503, 504}

\* The default is terminal.
FailureClass(status) ==
    CASE status \in AuthTerminal     -> "rejected"
      [] status \in ContractTerminal -> "rejected"
      [] status \in Retryable        -> "transient"
      [] OTHER                       -> "terminal"

\* validate_draft_response: what a completed answer can have wrong with it.
Defect == {"not_object", "schema", "missing", "mismatch", "ownership",
           "status", "error", "content", "draft", "external_write",
           "draft_only", "human_approval"}

\* What comes of an attempt: a status (one of each class, and two that no class
\* names), an answer with a defect or with none, or an exception.
Status == {401, 422, 429, 503, 500, 418}
Reply  == [status : Status] \cup [defect : Defect \cup {"none", "not_json"}]
            \cup [raised : {"timeout", "network", "other"}]

\* An answer that breaks the contract is never asked for again.
ReplyClass(r) ==
    IF "status" \in DOMAIN r THEN FailureClass(r.status)
    ELSE IF "defect" \in DOMAIN r
           THEN IF r.defect = "none" THEN "completed" ELSE "rejected"
    ELSE IF r.raised = "other" THEN "terminal" ELSE "transient"

-----------------------------------------------------------------------------
(* The circuit breaker.                                                     *)

CircuitSuccess == failures' = 0 /\ cooling' = 0

CircuitFailure ==
    /\ failures' = failures + 1
    /\ cooling' = IF failures + 1 >= Threshold THEN Cooldown ELSE cooling

\* Mutant: the breaker opens above its threshold.
ShutAbove == failures > Threshold

Shut == failures >= Threshold

\* _circuit_before_call.
CircuitPasses ==
    \/ ~Shut /\ UNCHANGED <<failures, cooling>>
    \/ Shut /\ cooling = 0 /\ CircuitSuccess

\* Mutant: a refused call starts the cool-down again.
CircuitRefusesAnew == Shut /\ cooling > 0 /\ cooling' = Cooldown /\ UNCHANGED failures

CircuitRefuses == Shut /\ cooling > 0 /\ UNCHANGED <<failures, cooling>>

-----------------------------------------------------------------------------
(* draft.                                                                   *)

Goes(c, next) == call' = [call EXCEPT ![c] = next]

Begins(c) ==
    /\ call[c] = Rest
    /\ CircuitPasses
    /\ Goes(c, [at |-> "posting", attempt |-> 0, left |-> Timeout,
                spent |-> 0, pieces |-> 0])

\* orkio_circuit_open.
Refused(c) ==
    /\ call[c] = Rest
    /\ CircuitRefuses
    /\ UNCHANGED call

\* A phase of the request ends, or a piece of it goes out or comes in, and the
\* timeout begins anew.
Progresses(c) ==
    /\ call[c].at = "posting"
    /\ call[c].pieces < MaxPieces
    /\ Goes(c, [call[c] EXCEPT !.left = Timeout, !.pieces = @ + 1])
    /\ UNCHANGED <<failures, cooling>>

Replied(c, class) ==
    call[c].at = "posting" /\ \E r \in Reply : ReplyClass(r) = class

Completed(c) ==
    /\ Replied(c, "completed")
    /\ CircuitSuccess
    /\ Goes(c, Rest)

\* 401 and 403, a refused contract, an answer that breaks it.
Rejected(c) ==
    /\ Replied(c, "rejected")
    /\ Goes(c, Rest)
    /\ UNCHANGED <<failures, cooling>>

TerminalReply(c) ==
    /\ Replied(c, "terminal")
    /\ CircuitFailure
    /\ Goes(c, Rest)

\* Mutant: the exponent counts attempts from one.
PauseFromOne(attempt) == IF attempt = 0 THEN 2 * Backoff ELSE 4 * Backoff

\* backoff * 2 ** attempt.
Pause(attempt) == IF attempt = 0 THEN Backoff ELSE 2 * Backoff

TriesAgain(c) == call[c].attempt + 1 < Attempts

Transient(c) ==
    /\ Replied(c, "transient")
    /\ TriesAgain(c)
    /\ Goes(c, [call[c] EXCEPT !.at = "pausing",
                               !.left = Pause(call[c].attempt)])
    /\ UNCHANGED <<failures, cooling>>

\* The last attempt: one failure for the breaker, however many attempts.
GivesUp(c) ==
    /\ Replied(c, "transient")
    /\ ~TriesAgain(c)
    /\ CircuitFailure
    /\ Goes(c, Rest)

Wakes(c) ==
    /\ call[c].at = "pausing"
    /\ call[c].left = 0
    /\ Goes(c, [call[c] EXCEPT !.at = "posting", !.attempt = @ + 1,
                               !.left = Timeout])
    /\ UNCHANGED <<failures, cooling>>

\* A tick: no phase outlives its timeout, no pause its length.
Tick ==
    /\ \A c \in Caller : call[c] # Rest => call[c].left > 0
    /\ call' = [c \in Caller |->
                  IF call[c] = Rest THEN Rest
                  ELSE [call[c] EXCEPT !.left = @ - 1, !.spent = @ + 1]]
    /\ cooling' = IF cooling > 0 THEN cooling - 1 ELSE 0
    /\ UNCHANGED failures

-----------------------------------------------------------------------------
Steps(c) ==
    \/ Begins(c) \/ Refused(c) \/ Progresses(c) \/ Completed(c) \/ Rejected(c)
    \/ TerminalReply(c) \/ Transient(c) \/ GivesUp(c) \/ Wakes(c)

\* A phase that is out of time ends its attempt.
Ends(c) ==
    /\ call[c].at # "rest"
    /\ call[c].left = 0
    /\ Transient(c) \/ GivesUp(c) \/ Wakes(c)

CallNext == Tick \/ \E c \in Caller : Steps(c)

CallSpec == CallInit /\ [][CallNext]_callVars

\* Time passes, and what is out of time ends.
CallFairSpec ==
    /\ CallSpec
    /\ WF_callVars(Tick)
    /\ \A c \in Caller : WF_callVars(Ends(c))

-----------------------------------------------------------------------------
(* Properties.                                                              *)

\* Settings counts a pause of Backoff before each retry, where the third attempt
\* waits twice that, and rounds down; its ten seconds of margin pay for both as
\* long as they last.
Uncounted ==
    IF Attempts = 3 /\ Backoff + Unit > 10 * Unit + 1
      THEN Backoff + Unit - (10 * Unit + 1)
      ELSE 0

\* A call outlives its lease by no more than what Settings leaves out: the rest
\* of the pauses, and one timeout for each piece its requests get on by.
OverrunBounded ==
    \A c \in Caller : call[c] # Rest =>
        call[c].spent <= Lease + Uncounted + Timeout * call[c].pieces

InFlight == {c \in Caller : call[c] # Rest}

\* An open breaker lets nobody in: what it still counts are the failures of
\* calls that were in flight when it opened.
OpenAdmitsNone ==
    failures >= Threshold =>
        failures + Cardinality(InFlight) < Threshold + Cardinality(Caller)

\* Each late failure starts the cool-down again, and still the breaker does not
\* stay shut for ever.
CircuitRecovers ==
    failures >= Threshold ~> (failures < Threshold \/ cooling = 0)
=============================================================================
