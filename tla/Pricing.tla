------------------------------ MODULE Pricing ------------------------------
(***************************************************************************)
(* What a project costs (pricing/service.py, routes.py, sources.py).        *)
(*                                                                          *)
(* Anyone submits prices with their evidence; an owner approves those of a  *)
(* supplier's quote.  Quantities of a project are mapped to prices, and an  *)
(* owner approves the mapping.  From both come construction estimates, and  *)
(* from explicit office parameters the fee; each leaves an event in the     *)
(* cost ledger, where costs that were paid are entered too.                 *)
(*                                                                          *)
(* A request on a project is a transaction that first reads whether the     *)
(* project is archived (mutable_project_or_409).                            *)
(*                                                                          *)
(* Abstractions.  A snapshot has one item, or none.  A quantity is counted  *)
(* in the last of the decimal places its column keeps, Parts of which make   *)
(* a unit (a million); 0 is what a positive quantity below half of one is    *)
(* stored as.  A share is counted in parts of Whole (10000 basis points).   *)
(* Units match.  Of documents only active cost evidence is named.            *)
(***************************************************************************)
EXTENDS Integers, FiniteSets, SequencesExt

CONSTANTS
    Handler,    \* request threads
    Submitted,  \* the sources prices are submitted for
    Cents,      \* unit prices and amounts
    Quantity,   \* stored quantities
    Hours,      \* expected hours, in Parts
    Share,      \* factors, overheads, margins and taxes, in parts of Whole
    Parts,
    Whole,
    MaxLines,   \* bound on the mappings an estimate names
    MaxSnapshots, MaxMappings, MaxEstimates, MaxEvents  \* bounds on the rows

ASSUME PricingOK ==
    /\ Parts \in Nat \ {0}
    /\ Whole \in Nat \ {0}
    /\ Cents \subseteq Nat
    /\ Quantity \subseteq Nat
    /\ Hours \subseteq Nat \ {0}
    /\ Share \subseteq Nat
    /\ {MaxLines, MaxSnapshots, MaxMappings, MaxEstimates, MaxEvents} \subseteq Nat

VARIABLES
    archived,  \* archived_at of the project
    snapshot,  \* price source snapshots, each with its item
    mapping,   \* quantity to price mappings
    estimate,  \* pricing estimates
    ledger,    \* vertical cost ledger
    entered,   \* history: the events entered by hand
    doing,     \* what each thread is doing
    late       \* history: the threads in flight when the project was archived

pricingVars == <<archived, snapshot, mapping, estimate, ledger, entered, doing, late>>

-----------------------------------------------------------------------------
Role     == {"owner", "member"}
NoAmount == -1

\* The registry: what a source may speak of.
RolesOf ==
    [sidra_ibge         |-> {"BENCHMARK"},
     sinapi_caixa       |-> {"UNIT_PRICE", "COMPOSITION_REFERENCE"},
     sicro_dnit         |-> {"UNIT_PRICE", "COMPOSITION_REFERENCE"},
     sinduscon_regional |-> {"BENCHMARK"},
     supplier_quote     |-> {"MARKET_QUOTE"},
     glip_historical    |-> {"REALIZED_COST"},
     cau_fee_reference  |-> {"FEE_REFERENCE"}]

Source == DOMAIN RolesOf

\* PriceSourceRegistry.get knows no other.
ASSUME SubmittedOK == Submitted \subseteq Source

DetailedCost      == {"UNIT_PRICE", "MARKET_QUOTE", "REALIZED_COST"}
ManuallyApproved  == {"supplier_quote"}
ServerVerified    == Source \ ManuallyApproved
FinancialApprover == {"owner"}

\* Half up, as ROUND_HALF_UP does for what is not negative.
Rounded(n, d) == (2 * n + d) \div (2 * d)

Up(n, share) == Rounded(n * (Whole + share), Whole)

-----------------------------------------------------------------------------
Snapshot == [source : Source, role : (UNION {RolesOf[s] : s \in Source}) \cup {"none"},
             cents : Cents \cup {NoAmount}, validity : {"human_review_required", "valid"},
             authority : {"unverified", "human_approved"}, by : Role \cup {"nobody"}]

Mapping == [item : 1 .. MaxSnapshots, quantity : Quantity,
            status : {"proposed", "approved"}, by : Role \cup {"nobody"}]

Line  == 1 .. MaxMappings
Terms == [hours : Hours, hourly : Cents, overhead : Share, taxes : Share, margin : Share]

Construction == [mode : {"construction_cost"}, lines : BoundedSeq(Line, MaxLines),
                 factor : Share, total : Nat]
Fee == [mode : {"professional_fee"}, terms : Terms, total : Nat]

\* What an event names (source_ref): the estimate it is of or claims to be of,
\* or else 0, and with it an invoice of the project or nothing that counts.
Event == [status : {"unknown", "estimated", "actual"}, amount : Nat \cup {NoAmount},
          evidence : {"none", "invoice"}, estimate : 0 .. MaxEstimates, by : Role]

Rest == [at |-> "rest"]

PricingTypeOK ==
    /\ archived \in BOOLEAN
    /\ snapshot \in Seq(Snapshot) /\ Len(snapshot) <= MaxSnapshots
    /\ mapping \in Seq(Mapping) /\ Len(mapping) <= MaxMappings
    /\ estimate \in Seq(Construction \cup Fee) /\ Len(estimate) <= MaxEstimates
    /\ ledger \in Seq(Event) /\ Len(ledger) <= MaxEvents
    /\ entered \subseteq DOMAIN ledger
    /\ doing \in [Handler -> {Rest} \cup [at : {"begun"}, role : Role]
                              \cup [at : {"priced"}, role : Role, result : Construction]]
    /\ late \subseteq Handler

PricingInit ==
    /\ archived = FALSE
    /\ snapshot = <<>>
    /\ mapping = <<>>
    /\ estimate = <<>>
    /\ ledger = <<>>
    /\ entered = {}
    /\ doing = [t \in Handler |-> Rest]
    /\ late = {}

Turns(t, next) == doing' = [doing EXCEPT ![t] = next]
Begun(t)       == doing[t].at = "begun"
Approver(t)    == doing[t].role \in FinancialApprover

-----------------------------------------------------------------------------
(* Prices.                                                                  *)

\* create_price_snapshot: whatever status is asked for, the row has no
\* authority; glip_historical is internal.
Submit ==
    /\ Len(snapshot) < MaxSnapshots
    /\ \E s \in Submitted \ {"glip_historical"}, cents \in Cents \cup {NoAmount} :
         \E role \in RolesOf[s] \cup {"none"} :
           snapshot' = Append(snapshot,
             [source |-> s, role |-> role, cents |-> cents,
              validity |-> "human_review_required", authority |-> "unverified",
              by |-> "nobody"])
    /\ UNCHANGED <<archived, mapping, estimate, ledger, entered, doing, late>>

Approvable(s) ==
    /\ snapshot[s].source \notin ServerVerified
    /\ snapshot[s].source \in ManuallyApproved
    /\ snapshot[s].role # "none"

\* approve_price_snapshot.
ApproveSnapshot(role) ==
    /\ role \in FinancialApprover
    /\ \E s \in DOMAIN snapshot :
         /\ Approvable(s)
         /\ snapshot' = [snapshot EXCEPT ![s].validity = "valid",
                           ![s].authority = "human_approved", ![s].by = role]
    /\ UNCHANGED <<archived, mapping, estimate, ledger, entered, doing, late>>

-----------------------------------------------------------------------------
(* A request on the project.                                                *)

\* Mutant: the project is only looked up.
ReadsAny(t) == TRUE

\* mutable_project_or_409.
ProjectMutable(t) == ~archived

Begins(t) ==
    /\ doing[t] = Rest
    /\ ProjectMutable(t)
    /\ \E role \in Role : Turns(t, [at |-> "begun", role |-> role])
    /\ late' = late \ {t}
    /\ UNCHANGED <<archived, snapshot, mapping, estimate, ledger, entered>>

\* PricingError, or the end of the process: nothing was committed.
GivesUp(t) ==
    /\ doing[t] # Rest
    /\ Turns(t, Rest)
    /\ UNCHANGED <<archived, snapshot, mapping, estimate, ledger, entered, late>>

\* create_quantity_mapping: any item may be proposed, whatever its authority.
Proposes(t) ==
    /\ Begun(t)
    /\ Len(mapping) < MaxMappings
    /\ \E s \in DOMAIN snapshot, q \in Quantity :
         /\ snapshot[s].role # "none"
         /\ mapping' = Append(mapping, [item |-> s, quantity |-> q,
                                        status |-> "proposed", by |-> "nobody"])
    /\ Turns(t, Rest)
    /\ UNCHANGED <<archived, snapshot, estimate, ledger, entered, late>>

\* approve_quantity_mapping.
ApprovesMapping(t) ==
    /\ Begun(t)
    /\ Approver(t)
    /\ \E m \in DOMAIN mapping :
         mapping' = [mapping EXCEPT ![m].status = "approved", ![m].by = doing[t].role]
    /\ Turns(t, Rest)
    /\ UNCHANGED <<archived, snapshot, estimate, ledger, entered, late>>

-----------------------------------------------------------------------------
(* Estimates.                                                               *)

Item(m) == snapshot[mapping[m].item]

Authorized(s) ==
    /\ s.validity = "valid"
    /\ s.authority \in {"server_verified", "human_approved"}
    /\ s.source \in ServerVerified => s.authority = "server_verified"

\* Mutant: the approval of the price is taken for that of the mapping.
ExecutableProposed(m) ==
    /\ Authorized(Item(m))
    /\ Item(m).role \in DetailedCost
    /\ Item(m).cents > 0

\* What estimate_construction asks of a mapping before it prices it.
Executable(m) ==
    /\ mapping[m].status = "approved"
    /\ Authorized(Item(m))
    /\ Item(m).role \in DetailedCost
    /\ Item(m).cents > 0

Subtotal(m) == Rounded(mapping[m].quantity * Item(m).cents, Parts)

Subtotals(lines) == [i \in DOMAIN lines |-> Subtotal(lines[i])]

\* estimate_construction, to the rows it adds.  A mapping named twice counts
\* twice.
Prices(t) ==
    /\ Begun(t)
    /\ Approver(t)
    /\ \E lines \in BoundedSeq(DOMAIN mapping, MaxLines) \ {<<>>},
          factor \in Share \cap 1 .. 5 * Whole :
         /\ \A m \in ToSet(lines) : Executable(m)
         /\ Turns(t, [at |-> "priced", role |-> doing[t].role, result |->
              [mode |-> "construction_cost", lines |-> lines, factor |-> factor,
               total |-> Rounded(SumFunction(Subtotals(lines)) * factor, Whole)]])
    /\ UNCHANGED <<archived, snapshot, mapping, estimate, ledger, entered, late>>

Room == Len(estimate) < MaxEstimates /\ Len(ledger) < MaxEvents

\* Mutant: the estimate is committed before its event.
RecordsFirst(t, result) ==
    /\ estimate' = Append(estimate, result)
    /\ ledger' \in {ledger, Append(ledger, [status |-> "estimated", amount |-> result.total,
                           evidence |-> "none", estimate |-> Len(estimate) + 1,
                           by |-> doing[t].role])}

\* The estimate and its event, in one transaction.
Records(t, result) ==
    /\ estimate' = Append(estimate, result)
    /\ ledger' = Append(ledger, [status |-> "estimated", amount |-> result.total,
                 evidence |-> "none", estimate |-> Len(estimate) + 1,
                 by |-> doing[t].role])

CommitsEstimate(t) ==
    /\ doing[t].at = "priced"
    /\ Room
    /\ Records(t, doing[t].result)
    /\ Turns(t, Rest)
    /\ UNCHANGED <<archived, snapshot, mapping, entered, late>>

\* Mutant: the margin is put on the cost.
FeeMarkedUp(terms) ==
    Up(Up(Up(Rounded(terms.hours * terms.hourly, Parts), terms.overhead), terms.margin),
       terms.taxes)

\* A margin is a share of the price, not of the cost.
FeeTotal(terms) ==
    LET labor  == Rounded(terms.hours * terms.hourly, Parts)
        cost   == Up(labor, terms.overhead)
        preTax == Rounded(cost * Whole, Whole - terms.margin)
    IN  Up(preTax, terms.taxes)

\* estimate_professional_fee.
CommitsFee(t) ==
    /\ Begun(t)
    /\ Approver(t)
    /\ Room
    /\ \E terms \in Terms :
         /\ terms.hourly > 0
         /\ {terms.overhead, terms.taxes} \subseteq 0 .. 10 * Whole
         /\ terms.margin < Whole
         /\ Records(t, [mode |-> "professional_fee", terms |-> terms,
                        total |-> FeeTotal(terms)])
    /\ Turns(t, Rest)
    /\ UNCHANGED <<archived, snapshot, mapping, entered, late>>

\* add_realized_cost: what is unknown has no amount, what was paid has an
\* owner and a document of the project that is cost evidence.  What is not said
\* to be paid may name anything: any estimate, with any amount, or (0) none there is.
EntersCost(t) ==
    /\ Begun(t)
    /\ Len(ledger) < MaxEvents
    /\ \E e \in [status : {"unknown", "estimated", "actual"},
                 amount : Cents \cup {NoAmount}, evidence : {"none", "invoice"},
                 estimate : {0} \cup DOMAIN estimate, by : {doing[t].role}] :
         /\ e.status = "unknown" <=> e.amount = NoAmount
         /\ e.status = "actual" => Approver(t) /\ e.evidence = "invoice"
         /\ e.evidence = "invoice" => e.estimate = 0
         /\ ledger' = Append(ledger, e)
    /\ entered' = entered \cup {Len(ledger) + 1}
    /\ Turns(t, Rest)
    /\ UNCHANGED <<archived, snapshot, mapping, estimate, late>>

-----------------------------------------------------------------------------
\* archive_project and restore_project, of ProjectLifecycle.
Archives ==
    /\ ~archived
    /\ archived' = TRUE
    /\ late' = {t \in Handler : doing[t] # Rest}
    /\ UNCHANGED <<snapshot, mapping, estimate, ledger, entered, doing>>

Restores ==
    /\ archived
    /\ archived' = FALSE
    /\ UNCHANGED <<snapshot, mapping, estimate, ledger, entered, doing, late>>

PricingNext ==
    \/ Submit
    \/ \E role \in Role : ApproveSnapshot(role)
    \/ \E t \in Handler :
         \/ Begins(t) \/ GivesUp(t)
         \/ Proposes(t) \/ ApprovesMapping(t)
         \/ Prices(t) \/ CommitsEstimate(t) \/ CommitsFee(t) \/ EntersCost(t)
    \/ Archives \/ Restores

PricingSpec == PricingInit /\ [][PricingNext]_pricingVars

-----------------------------------------------------------------------------
(* Properties.                                                              *)

\* Every price of an estimate went through two approvals by an owner, that of
\* its snapshot and that of its mapping, and is a supplier's quote: nothing a
\* member submits reaches a total by itself, and no path of this code verifies
\* an official source.
PricesApproved ==
    \A e \in ToSet(estimate) :
        e.mode = "construction_cost" =>
            \A m \in ToSet(e.lines) :
                /\ mapping[m].by \in FinancialApprover
                /\ Item(m).by \in FinancialApprover
                /\ Item(m).source = "supplier_quote"
                /\ Item(m).cents > 0

\* What the lines cost before any rounding.
Exacts(lines) ==
    [i \in DOMAIN lines |-> mapping[lines[i]].quantity * Item(lines[i]).cents]

Near(a, b, tolerance) == a - b <= tolerance /\ b - a <= tolerance

\* A total can be computed again from the rows it names and the terms it
\* carries: it is as far from the exact value as the roundings on the way
\* allow, half a cent each, scaled as they are.
Reconstructible ==
    \A e \in ToSet(estimate) :
        IF e.mode = "construction_cost"
        THEN Near(2 * Parts * Whole * e.total,
                  2 * e.factor * SumFunction(Exacts(e.lines)),
                  Parts * (Len(e.lines) * e.factor + Whole))
        ELSE LET net   == Whole - e.terms.margin
                 taxed == Whole + e.terms.taxes
             IN  Near(2 * Parts * Whole * net * e.total,
                      2 * e.terms.hours * e.terms.hourly * (Whole + e.terms.overhead) * taxed,
                      Parts * ((2 * Whole + e.terms.overhead + net) * taxed + Whole * net))

OwnEvents == DOMAIN ledger \ entered

\* Whatever people enter beside them, each estimate has one event of its own in
\* the ledger, of its amount, and each event that nobody entered is that of an
\* estimate; what is said to be paid has an owner and evidence.
LedgerBacked ==
    /\ \A n \in DOMAIN estimate :
         \E only \in OwnEvents :
             /\ ledger[only].amount = estimate[n].total
             /\ {i \in OwnEvents : ledger[i].estimate = n} = {only}
    /\ \A i \in OwnEvents : ledger[i].estimate \in DOMAIN estimate
    /\ \A e \in ToSet(ledger) :
         e.status = "actual" => e.by \in FinancialApprover /\ e.evidence = "invoice"

\* An archived project gets no row but from the requests that had found it open
\* before it was archived, each of which ends with what it writes.
LateWritersOnly ==
    [][archived /\ <<mapping, estimate, ledger>>' # <<mapping, estimate, ledger>>
       => \E t \in late : doing[t] # Rest /\ doing'[t] = Rest]_pricingVars
=============================================================================
