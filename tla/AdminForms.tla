----------------------------- MODULE AdminForms -----------------------------
(***************************************************************************)
(* The dashboard's editors of one row: EditCouponRow, EditCategoryRow and  *)
(* SettingsForm.  Each keeps the values it edits in state of its own,      *)
(* filled once from the row the page was loaded with, and sends them in    *)
(* one request that names several fields at once, while another            *)
(* administrator edits the same row.                                       *)
(***************************************************************************)
EXTENDS Naturals

CONSTANTS Fields,      \* the text fields an editor shows
          Texts,       \* what can be typed into one
          NoSave

Blank == ""            \* an empty input, and the value of a row never set

ASSUME FormsAssumption == Blank \notin Texts

VARIABLES
    editorKind,   \* which of the three editors this is
    record,       \* the row in the database
    page,         \* the row as the page was last rendered with
    editor,       \* open, and the values in its inputs
    save,         \* the request under way: its fields, whether it was applied
    typed,        \* history: fields whose input was typed into and not yet saved
    overtaken     \* history: fields changed behind the inputs since they were filled

formVars == <<editorKind, record, page, editor, save, typed, overtaken>>

Kinds == {"coupon", "category", "settings"}

Records  == [Fields -> Texts \cup {Blank}]
Payloads == UNION {[sent -> Texts \cup {Blank}] : sent \in SUBSET Fields}

(* The settings form has no closed state and no Cancel.                    *)
AlwaysOpen == editorKind = "settings"

Filled(from) == [open |-> AlwaysOpen, values |-> from]

FormsInit ==
    /\ editorKind \in Kinds
    /\ record \in [Fields -> IF editorKind = "category" THEN Texts ELSE Texts \cup {Blank}]
    /\ page = record
    /\ editor = Filled(record)
    /\ save = NoSave
    /\ typed = {}
    /\ overtaken = {}

Open ==
    /\ ~editor.open
    /\ editor' = [editor EXCEPT !.open = TRUE]
    /\ UNCHANGED <<editorKind, record, page, save, typed, overtaken>>

Type(f, text) ==
    /\ editor.open
    /\ editor' = [editor EXCEPT !.values[f] = text]
    /\ typed' = typed \cup {f}
    /\ UNCHANGED <<editorKind, record, page, save, overtaken>>

(* handleCancel, which a save under way does not disable: the inputs take  *)
(* the page's values again.                                                *)
MutantCancel ==
    /\ editor.open /\ ~AlwaysOpen
    /\ editor' = [editor EXCEPT !.open = FALSE]
    /\ typed' = {}
    /\ overtaken' = {f \in Fields : page[f] # record[f]}
    /\ UNCHANGED <<editorKind, record, page, save>>

Cancel ==
    /\ editor.open /\ ~AlwaysOpen
    /\ editor' = Filled(page)
    /\ typed' = {}
    /\ overtaken' = {f \in Fields : page[f] # record[f]}
    /\ UNCHANGED <<editorKind, record, page, save>>

(***************************************************************************)
(* handleSave and handleSubmit: what an editor asks for.  A coupon's and   *)
(* the settings' blank inputs are left out, which leaves those fields as   *)
(* they are; a category's names are always sent.  excused is a history:    *)
(* what this request may overwrite.                                        *)
(***************************************************************************)
FilledIn == {f \in Fields : editor.values[f] # Blank}

Send(sent) ==
    /\ editor.open /\ save = NoSave
    /\ save' = [fields |-> [f \in sent |-> editor.values[f]], applied |-> FALSE,
                excused |-> typed \cup overtaken]
    /\ UNCHANGED <<editorKind, record, page, editor, typed, overtaken>>

SaveCoupon   == editorKind = "coupon" /\ Send(FilledIn)
SaveCategory == editorKind = "category" /\ Send(Fields)
SaveSettings == editorKind = "settings" /\ Send(FilledIn)

(* The service writes the fields it is given and no others; a category's   *)
(* name must not be empty.                                                 *)
ApplySave ==
    /\ save # NoSave /\ ~save.applied
    /\ editorKind = "category" => \A f \in Fields : save.fields[f] # Blank
    /\ record' = [f \in Fields |-> IF f \in DOMAIN save.fields THEN save.fields[f] ELSE record[f]]
    /\ save' = [save EXCEPT !.applied = TRUE]
    /\ typed' = {f \in typed : editor.values[f] # record'[f]}
    /\ overtaken' = {f \in overtaken \cup {g \in Fields : record'[g] # record[g]} :
                        editor.values[f] # record'[f]}
    /\ UNCHANGED <<editorKind, page, editor>>

(* The success path closes the editor, leaves its inputs, and has the page *)
(* rendered again.                                                         *)
SaveSucceeds ==
    /\ save # NoSave /\ save.applied
    /\ page' = record
    /\ editor' = [editor EXCEPT !.open = AlwaysOpen]
    /\ save' = NoSave
    /\ UNCHANGED <<editorKind, record, typed, overtaken>>

(* Refused, or the answer lost: the editor stays open with what is in it.  *)
SaveFails ==
    /\ save # NoSave
    /\ save' = NoSave
    /\ UNCHANGED <<editorKind, record, page, editor, typed, overtaken>>

(* router.refresh() for some other reason: new props, old inputs.          *)
Refresh ==
    /\ page # record
    /\ page' = record
    /\ UNCHANGED <<editorKind, record, editor, save, typed, overtaken>>

(* The page is left and loaded again.                                      *)
Reload ==
    /\ page' = record
    /\ editor' = Filled(record)
    /\ save' = NoSave
    /\ typed' = {}
    /\ overtaken' = {}
    /\ UNCHANGED <<editorKind, record>>

SomebodyElseEdits(f, text) ==
    /\ record[f] # text
    /\ record' = [record EXCEPT ![f] = text]
    /\ overtaken' = overtaken \cup {f}
    /\ save' = IF save = NoSave THEN NoSave ELSE [save EXCEPT !.excused = @ \cup {f}]
    /\ UNCHANGED <<editorKind, page, editor, typed>>

(***************************************************************************)
(* The next-state relation.                                                *)
(***************************************************************************)
FormStep ==
    \/ Open \/ Cancel \/ SaveCoupon \/ SaveCategory \/ SaveSettings
    \/ ApplySave \/ SaveSucceeds \/ SaveFails
    \/ Refresh \/ Reload

TypeOrEdit ==
    \/ \E f \in Fields, text \in Texts \cup {Blank} : Type(f, text)
    \/ \E f \in Fields, text \in Texts : SomebodyElseEdits(f, text)

FormsNext == FormStep \/ TypeOrEdit

FormsSpec == FormsInit /\ [][FormsNext]_formVars

(***************************************************************************)
(* Properties.                                                             *)
(***************************************************************************)
FormsTypeOK ==
    /\ editorKind \in Kinds
    /\ record \in Records /\ page \in Records
    /\ editor \in [open : BOOLEAN, values : Records]
    /\ save \in {NoSave} \cup [fields : Payloads, applied : BOOLEAN, excused : SUBSET Fields]
    /\ typed \subseteq Fields /\ overtaken \subseteq Fields

(* A save that goes through changes only fields that were typed into, and  *)
(* fields changed behind the inputs, by somebody else or by a save that    *)
(* was cancelled over: nothing that was typed and then cancelled, or saved *)
(* long ago, ever comes back.                                              *)
UntypedFieldsKept ==
    [][(save # NoSave /\ ~save.applied /\ save' # NoSave /\ save'.applied)
          => \A f \in Fields : record'[f] # record[f] => f \in save.excused]_formVars
=============================================================================
