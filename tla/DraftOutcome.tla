---------------------------- MODULE DraftOutcome ----------------------------
(***************************************************************************)
(* What POST /projects/{id}/capabilities/draft-message promises for one     *)
(* idempotency key, whatever threads, crashes and retries stand behind it:  *)
(* the outcome is decided at most once, and every client that is answered   *)
(* with a draft is answered with the one draft that was decided.            *)
(*                                                                          *)
(* This is the abstract specification.  IntegrationExecution, the model of  *)
(* the code, implements it.                                                 *)
(***************************************************************************)
CONSTANTS
    Response,    \* the drafts ORKIO may produce
    Undecided,   \* no outcome yet: not a response
    Refused      \* the terminal failure, answered with 502: not a response

VARIABLES
    outcome,     \* the decision taken for the key
    delivered    \* the drafts clients have been answered with

vars == <<outcome, delivered>>

TypeOK ==
    /\ outcome \in Response \cup {Undecided, Refused}
    /\ delivered \subseteq Response

Init ==
    /\ outcome = Undecided
    /\ delivered = {}

\* The request that decides is answered, unless its answer is lost.
Decide(r) ==
    /\ outcome = Undecided
    /\ outcome' = r
    /\ delivered' \in {{}, {r}}

Refuse ==
    /\ outcome = Undecided
    /\ outcome' = Refused
    /\ UNCHANGED delivered

\* A later request with the same key replays the decision.
Replay ==
    /\ outcome \in Response
    /\ delivered' = delivered \cup {outcome}
    /\ UNCHANGED outcome

Next == (\E r \in Response : Decide(r)) \/ Refuse \/ Replay

Spec == Init /\ [][Next]_vars

\* Clients never hold two different drafts for one key.
Agreement == delivered \subseteq {outcome}
=============================================================================
