------------------------------ MODULE Policies ------------------------------
(***************************************************************************)
(* The policy settings of an institution and the form administrators edit  *)
(* them in (settings.js, org.service.js, Settings.tsx).  The row keeps the *)
(* settings that were ever saved; what is read is those over the defaults. *)
(*                                                                         *)
(* updateSettings reads the row FOR UPDATE, merges what it is sent and     *)
(* writes it: two steps that hold the row.  The form sends everything it   *)
(* shows, in two requests: the institution's own fields, then the policies.*)
(***************************************************************************)
EXTENDS Naturals, FiniteSets

CONSTANTS
  Administrator,  \* one form and at most one request each
  Setting,        \* the keys of the policies
  Value,          \* what can be typed for a key, or found in the row
  Valid,          \* what settingsSchema accepts
  Default,        \* DEFAULT_SETTINGS
  Zone,           \* time zones; they stand for name and currency as well
  MaxEdits        \* bound on how many values are typed or sent

ASSUME PoliciesAssumption ==
  /\ Valid \subseteq Value
  /\ Default \in [Setting -> Valid]
  /\ MaxEdits \in Nat

VARIABLES
  stored,  \* institutions.settings, a function on the keys ever saved
  zone,    \* institutions.timezone
  form,    \* what each administrator's form shows and what it last fetched
  saving,  \* each administrator's request
  edits    \* how many values were typed or sent

policyVars == <<stored, zone, form, saving, edits>>

Merge(base, patch) ==
  [k \in DOMAIN base \cup DOMAIN patch |->
     IF k \in DOMAIN patch THEN patch[k] ELSE base[k]]

Acceptable(settings) == \A k \in DOMAIN settings : settings[k] \in Valid

\* resolveSettings: one value that is not valid, and all of the row is ignored.
Resolve(settings) ==
  IF Acceptable(Merge(Default, settings)) THEN Merge(Default, settings) ELSE Default

Policy == Resolve(stored)

NoForm == [open |-> FALSE]
NotSaving == [stage |-> "no"]

\* A new institution has an empty row; a row may also have been written under
\* other bounds than today's.
PoliciesInit ==
  /\ stored \in UNION {[K -> Value] : K \in {L \in SUBSET Setting : Cardinality(L) <= 1}}
  /\ zone \in Zone
  /\ form = [a \in Administrator |-> NoForm]
  /\ saving = [a \in Administrator |-> NotSaving]
  /\ edits = 0

-----------------------------------------------------------------------------
(* The form. *)

OpenForm(a) ==
  /\ form[a] = NoForm
  /\ form' = [form EXCEPT ![a] =
       [open |-> TRUE, shown |-> Policy, fetched |-> Policy, typed |-> {}, zone |-> zone]]
  /\ UNCHANGED <<stored, zone, saving, edits>>

CloseForm(a) ==
  /\ form[a] # NoForm /\ saving[a] = NotSaving
  /\ form' = [form EXCEPT ![a] = NoForm]
  /\ UNCHANGED <<stored, zone, saving, edits>>

\* A defect to be caught: the policies are kept as the time zone is, in the
\* state the form began with.
RefreshedNever(f) == [f EXCEPT !.fetched = Policy]

\* The effect on inst.settings: other policies than the last ones replace what
\* is shown, typed or not.  Name, time zone and currency stay as first loaded.
Refreshed(f) ==
  IF f.fetched = Policy THEN f
  ELSE [f EXCEPT !.fetched = Policy, !.shown = Policy, !.typed = {}]

\* The query runs again when the window gets the focus, and after a save.
Refetch(a) ==
  /\ form[a] # NoForm
  /\ form' = [form EXCEPT ![a] = Refreshed(form[a])]
  /\ UNCHANGED <<stored, zone, saving, edits>>

\* What is typed or sent is counted, to bound the instances.
Edit == edits < MaxEdits /\ edits' = edits + 1

TypePolicy(a, k, v) ==
  /\ Edit
  /\ form[a] # NoForm
  /\ form' = [form EXCEPT ![a].shown[k] = v, ![a].typed = @ \cup {k}]
  /\ UNCHANGED <<stored, zone, saving>>

TypeZone(a, z) ==
  /\ Edit
  /\ form[a] # NoForm
  /\ form' = [form EXCEPT ![a].zone = z]
  /\ UNCHANGED <<stored, zone, saving>>

-----------------------------------------------------------------------------
(* Saving. *)

Request(patch, meant, fetched, z) ==
  [stage |-> "institution", patch |-> patch, meant |-> meant,
   fetched |-> fetched, zone |-> z, before |-> Default]

\* The button is busy, and does nothing, until the request is over.
Save(a) ==
  /\ form[a] # NoForm /\ saving[a] = NotSaving
  /\ saving' = [saving EXCEPT ![a] =
       Request(form[a].shown, form[a].typed, form[a].fetched, form[a].zone)]
  /\ UNCHANGED <<stored, zone, form, edits>>

\* The API takes any part of the policies.
Patch(a, k, v) ==
  /\ Edit
  /\ saving[a] = NotSaving
  /\ saving' = [saving EXCEPT ![a] =
       [Request([x \in {k} |-> v], {k}, [x \in {k} |-> v], zone) EXCEPT !.stage = "settings"]]
  /\ UNCHANGED <<stored, zone, form>>

InstitutionRowFree(a) == \A b \in Administrator : saving[b].stage # "read"

UpdateInstitution(a) ==
  /\ saving[a].stage = "institution" /\ InstitutionRowFree(a)
  /\ zone' = saving[a].zone
  /\ saving' = [saving EXCEPT ![a].stage = "settings"]
  /\ UNCHANGED <<stored, form, edits>>

\* The values of the patch are checked before it reaches updateSettings: then
\* the institution's fields have been saved, and the policies have not.
BeginUpdate(a) ==
  /\ saving[a].stage = "settings" /\ InstitutionRowFree(a)
  /\ Acceptable(saving[a].patch)
  /\ saving' = [saving EXCEPT ![a].stage = "read", ![a].before = Policy]
  /\ UNCHANGED <<stored, zone, form, edits>>

UpdateSettings(a) ==
  /\ saving[a].stage = "read"
  /\ stored' = Merge(saving[a].before, saving[a].patch)
  /\ saving' = [saving EXCEPT ![a] = NotSaving]
  /\ UNCHANGED <<zone, form, edits>>

SaveFails(a) ==
  /\ saving[a] # NotSaving
  /\ saving' = [saving EXCEPT ![a] = NotSaving]
  /\ UNCHANGED <<stored, zone, form, edits>>

PoliciesNext ==
  \E a \in Administrator :
    \/ OpenForm(a) \/ CloseForm(a) \/ Refetch(a) \/ Save(a)
    \/ \E k \in Setting, v \in Value : TypePolicy(a, k, v) \/ Patch(a, k, v)
    \/ \E z \in Zone : TypeZone(a, z)
    \/ UpdateInstitution(a) \/ BeginUpdate(a) \/ UpdateSettings(a) \/ SaveFails(a)

PoliciesSpec == PoliciesInit /\ [][PoliciesNext]_policyVars

-----------------------------------------------------------------------------

\* Two administrators at work: a policy changes only if one of them meant to
\* change it, in his form or in a request for that policy alone, or if his form
\* has not been refreshed since the policy took the value that he overwrites.
\* What is read of the row always lies within the bounds.
PoliciesChangeOnPurpose ==
  [][/\ Acceptable(Policy')
     /\ \A k \in Setting : Policy'[k] # Policy[k] =>
          \E a \in Administrator :
            /\ saving[a].stage = "read"
            /\ \/ k \in saving[a].meant
               \/ /\ k \in DOMAIN saving[a].patch
                  /\ saving[a].fetched[k] # Policy[k]]_policyVars
=============================================================================
