----------------------------- MODULE CasePages -----------------------------
(***************************************************************************)
(* What the pages about outcomes, warnings and appeals offer (Reconcile,   *)
(* StudentWarnings and Appeals.tsx, with the views the API computes for    *)
(* them), from the same rows as the checks of the operations, by rules of  *)
(* their own.                                                              *)
(***************************************************************************)
EXTENDS Accountability

\* A defect to be caught: the status of the warning is taken to tell whether it
\* has been appealed.
CanAppealAnyActive(m, s) ==
  /\ warning[m][s].status = "ACTIVE"
  /\ now < warning[m][s].issuedAt + AppealWindow

\* warningView: the student's "Appeal" button.
CanAppeal(m, s) ==
  /\ warning[m][s].status = "ACTIVE"
  /\ appeal[m][s] = "NONE"
  /\ now < warning[m][s].issuedAt + AppealWindow

AtDeadline(m, s) == now = warning[m][s].issuedAt + AppealWindow

\* The tab of pending appeals, with "Accept" and "Decline" on each.
ResolveButtons(m, s) == appeal[m][s] = "PENDING"

\* The preview of a reconciliation: who would be warned, and can be excused.
NoShowCandidates(m) ==
  {s \in Student : Classify(Declared(m, s), present[m][s], FALSE) = NoShow}

\* The dialog "Correct": what is asked of the attendance, and whether an excuse
\* has been typed, for which a field appears while a YES voter is "not eaten".
SaveButton(m, s, attended, excuseTyped) ==
  /\ m \in reconciled
  /\ outcome[m][s] # NoOutcome
  /\ attended # IF outcome[m][s].attended THEN "YES" ELSE "NO"
  /\ excuseTyped => outcome[m][s].intent = "YES"
  /\ attended # "SAME" \/ excuseTyped

\* An excuse that changes nothing: of one who ate, or is excused already.
IdleExcuse(m, s, attended) ==
  attended = "SAME" /\ outcome[m][s].class \in {"EXCUSED", "YES_ATTENDED"}

\* What a student is told can be appealed can be, and the rest cannot, but for
\* the instant of the deadline; and the appeals listed as pending are those that
\* can be decided.
AppealsFit ==
  \A m \in Slot, s \in Student :
    /\ CanAppeal(m, s) => MayAppeal(m, s)
    /\ MayAppeal(m, s) => CanAppeal(m, s) \/ AtDeadline(m, s)
    /\ ResolveButtons(m, s) <=> Resolvable(appeal[m][s])

\* A correction that can be saved is one, but for an idle excuse.
CorrectionsFit ==
  \A m \in Slot, s \in Student,
     attended \in {"SAME", "YES", "NO"}, excuse \in BOOLEAN :
    SaveButton(m, s, attended, excuse) =>
      \/ MayCorrect(m, s, attended, excuse)
      \/ IdleExcuse(m, s, attended)

\* A reconciliation can excuse exactly the candidates listed; and those listed
\* afterwards are the same, all of them excused or warned, or nobody warned.
CandidatesFit ==
  \A m \in Slot :
    /\ m \notin reconciled =>
         \A excusals \in SUBSET Student :
           MayReconcile(m, excusals) <=> excusals \subseteq NoShowCandidates(m)
    /\ m \in reconciled =>
         summary[m].warningsIssued \in
           {0, Cardinality(NoShowCandidates(m)) - summary[m].excused}

\* The pages and the API agree on what can be appealed, decided, corrected and
\* excused, and on whom a reconciliation has warned.
CasePagesFit ==
  /\ AppealsFit
  /\ CorrectionsFit
  /\ CandidatesFit
=============================================================================
