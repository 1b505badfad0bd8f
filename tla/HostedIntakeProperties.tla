------------------------ MODULE HostedIntakeProperties ------------------------
(* What the shared intake guarantees with concurrent callers, conflicts,    *)
(* lost answers and writes that land after they were given up.              *)
EXTENDS HostedIntake

\* The records hold the submission, or the review at the version it names.
IsAppliedIn(records, input) ==
    LET request == records[input.id]
    IN  /\ request # Nobody
        /\ request.details = input.details
        /\ IsReview(input) =>
              /\ request.revision > input.expectedRevision
              /\ request.history[input.expectedRevision + 1] = input.decision

IsApplied(input) == IsAppliedIn(intake, input)

\* Whoever was told that a submission or a review succeeded finds it in the
\* shared record for ever, whatever others write (intake.ts:16-29).
AckIsDurable == \A input \in acked : IsApplied(input)

Promise == INSTANCE IntakePromise WITH
    intake <- [id \in Requests |->
        [details |-> intake[id].details, status |-> intake[id].status, history |-> intake[id].history]]

\* The blob, written from concurrent snapshots, changes only the way one
\* caller at a time would change it, and stays within the workspace limit.
KeepsPromise == Promise!Spec
=============================================================================
