---------------------------- MODULE T9KeySettings ---------------------------
(***************************************************************************)
(* The dialog in which the user gives each of the nine-key groups a key     *)
(* (T9KeySettingsDialog.cpp), the configuration file that it reads and      *)
(* writes for each schema, and what the key binder makes of the file.       *)
(*                                                                         *)
(* A message box runs a message loop of its own.  The handler that opened   *)
(* it waits in prompts, while the timer goes on polling the keyboard, and   *)
(* while the dialog takes clicks unless the box belongs to it.              *)
(***************************************************************************)
EXTENDS Integers, FiniteSetsExt, SequencesExt, TLC

CONSTANTS
  SchemaIds,     \* kSchemaIds, in their order
  Groups,        \* the nine-key groups; a group sends the digit of its number
  Keys,          \* names of keys
  DefaultKeys,   \* kDefaultKeys
  SchemaBindings,\* key_binder/bindings of the schema files
  Files,         \* what the dialog may find of a schema's file
  MaxPressed,    \* bound: keys pressed while a group waits for one
  MaxPrompts,    \* bound: message boxes that are open at once
  MaxFaults      \* bound: files that cannot be written or removed

Schemas == ToSet(SchemaIds)
NoGroup == -1

-----------------------------------------------------------------------------
(* The file of a schema: bindings in the form the dialog knows, the marker  *)
(* of its own files, and whether there is anything else in it.              *)

\* The conditions of a binding, in the order in which the key binder tries them
Rank == [predicting |-> 1, paging |-> 2, has_menu |-> 3, composing |-> 4, always |-> 5]
Conditions == DOMAIN Rank

\* The key sends the digit of the group; NoGroup: it does something else.
Binding(accept, when, group) == [accept |-> accept, when |-> when, group |-> group]
File(marker, bindings, other) ==
  [exists |-> TRUE, marker |-> marker, bindings |-> bindings, other |-> other]
NoFile == [File(FALSE, <<>>, FALSE) EXCEPT !.exists = FALSE]

\* Work of the user, which no dialog has written
HandWork(f) == f.exists /\ (~f.marker \/ f.other)

\* bindings as the dialog writes them: one for a group, under no condition
AsWritten(bindings) ==
  /\ \A i, j \in DOMAIN bindings : bindings[i].group = bindings[j].group => i = j
  /\ \A i \in DOMAIN bindings : bindings[i].when = "always"

\* The schema file binds the default keys, each once and under no condition,
\* and other keys under any.
BindsDefaults(schema) ==
  LET bindings == SchemaBindings[schema]
  IN  \A g \in Groups : \E i \in DOMAIN bindings :
        /\ bindings[i] = Binding(DefaultKeys[schema][g], "always", g)
        /\ \A j \in DOMAIN bindings \ {i} : bindings[j].accept # bindings[i].accept

ASSUME T9KeySettingsAssumption ==
  /\ Groups \subseteq Nat /\ IsFiniteSet(Groups)
  /\ SchemaIds \in Seq(Schemas) /\ SchemaIds # <<>> /\ IsInjective(SchemaIds)
  /\ DefaultKeys \in [Schemas -> [Groups -> Keys]]
  /\ \A schema \in Schemas : IsInjective(DefaultKeys[schema])
  /\ \A schema \in Schemas :
       /\ SchemaBindings[schema] \in
            Seq([accept : Keys, when : Conditions, group : Groups \cup {NoGroup}])
       /\ BindsDefaults(schema)
  /\ \A f \in Files :
       /\ f = File(f.marker, f.bindings, f.other) \/ f = NoFile
       /\ f.marker \in BOOLEAN /\ f.other \in BOOLEAN
       /\ f.bindings \in Seq([accept : Keys, when : {"composing", "always"}, group : Groups])
       /\ HandWork(f) \/ AsWritten(f.bindings)
  /\ {MaxPressed, MaxPrompts, MaxFaults} \subseteq Nat

VARIABLES
  keys,            \* keys_: of each schema, what is shown for the groups
  manual_content,  \* manual_content_
  dirty,           \* dirty_
  current,         \* CurrentSchema()
  capture,         \* capture_, with the timer
  prompts,         \* message boxes and the handlers that wait for them
  saving,          \* the loop of OnOk: the schema it is at, 0 outside
  result,          \* of EndDialog, "open" before
  file,            \* of each schema
  lost,            \* history: schemas whose file may not say what is shown: it
                   \* could not be removed, or a key was changed too late
  pressed,         \* counts the keys that were captured
  faults           \* counts the files that could not be written or removed

shownVars == <<keys, manual_content, dirty, file, lost, faults>>
vars == <<shownVars, current, capture, prompts, saving, result, pressed>>

-----------------------------------------------------------------------------
(* Bindings.                                                               *)

\* The binding that is read last decides.
Bound(defaults, bindings) ==
  [g \in Groups |->
     LET of == {i \in DOMAIN bindings : bindings[i].group = g}
     IN  IF of = {} THEN defaults[g] ELSE bindings[Max(of)].accept]

\* Mutant: only the marker tells
LoadMarkedOnly(schema, f) ==
  [keys |-> Bound(DefaultKeys[schema], f.bindings), manual_content |-> f.exists /\ ~f.marker]

LoadSchemaKeys(schema, f) ==
  [keys |-> Bound(DefaultKeys[schema], f.bindings), manual_content |-> HandWork(f)]

InOrder(S) ==
  CHOOSE order \in [1..Cardinality(S) -> S] :
    \A i, j \in 1..Cardinality(S) : i < j => order[i] < order[j]

\* The bindings that SaveSchemaKeys collects, in the order of the groups
Entries(schema, shown) ==
  LET changed == {g \in Groups : shown[g] # DefaultKeys[schema][g]}
      order == InOrder(changed)
  IN  [i \in 1..Cardinality(changed) |-> Binding(shown[order[i]], "always", order[i])]

\* Mutant: a binding goes behind those of the same condition
PrecedesOfFirst(all, i, j) ==
  \/ Rank[all[i].when] < Rank[all[j].when]
  \/ all[i].when = all[j].when /\ i < j

\* KeyBindings::Bind keeps the bindings of a key in the order of their
\* conditions, and puts one before those of the same condition: of these the
\* one that was read last decides.
Precedes(all, i, j) ==
  \/ Rank[all[i].when] < Rank[all[j].when]
  \/ all[i].when = all[j].when /\ i > j

\* The group whose digit the key sends where these conditions hold.  The file
\* adds its bindings to those of the schema.
Sends(schema, f, key, conditions) ==
  LET all == SchemaBindings[schema] \o f.bindings
      ofKey == {i \in DOMAIN all : all[i].accept = key /\ all[i].when \in conditions}
  IN  IF ofKey = {} THEN NoGroup
      ELSE all[CHOOSE i \in ofKey : \A j \in ofKey \ {i} : Precedes(all, i, j)].group

-----------------------------------------------------------------------------
(* Saving.  A file may be locked or the disk full.                          *)

Fault == faults < MaxFaults /\ faults' = faults + 1

Settled(schema) ==
  /\ manual_content' = [manual_content EXCEPT ![schema] = FALSE]
  /\ dirty' = [dirty EXCEPT ![schema] = FALSE]

\* The error of remove is not looked at.
RemoveFile(schema) ==
  /\ Settled(schema)
  /\ \/ /\ file' = [file EXCEPT ![schema] = NoFile]
        /\ lost' = lost \ {schema} /\ UNCHANGED faults
     \/ /\ Fault /\ file[schema].exists
        /\ lost' = lost \cup {schema} /\ UNCHANGED file

\* OnOk goes on with the next schema, unless saving this one was refused.
StayOpen(schema) ==
  /\ current' = schema /\ saving' = 0
  /\ UNCHANGED shownVars

\* What was collected for the file may not be what is shown any more.
WriteFile(schema, bindings, next) ==
  \/ /\ Settled(schema)
     /\ file' = [file EXCEPT ![schema] = File(TRUE, bindings, FALSE)]
     /\ lost' = IF bindings = Entries(schema, keys[schema]) THEN lost \ {schema}
                ELSE lost \cup {schema}
     /\ saving' = next
     /\ UNCHANGED <<keys, current, faults>>
  \/ /\ Fault
     /\ current' = schema /\ saving' = 0
     /\ UNCHANGED <<keys, manual_content, dirty, file, lost>>

UsedPrompt == [kind |-> "used"]
RestorePrompt(schema) == [kind |-> "restore", schema |-> schema]
OverwritePrompt(schema, bindings) ==
  [kind |-> "overwrite", schema |-> schema, bindings |-> bindings]

Prompt(prompt) == prompts' = Append(prompts, prompt)
NextPrompt == Len(prompts) < MaxPrompts

SaveSchemaKeys(schema) ==
  LET bindings == Entries(schema, keys[schema])
  IN  \/ /\ bindings = <<>>
         /\ RemoveFile(schema) /\ saving' = saving + 1
         /\ UNCHANGED <<keys, current, prompts>>
      \/ /\ bindings # <<>> /\ manual_content[schema]
         /\ Prompt(OverwritePrompt(schema, bindings)) /\ saving' = 0
         /\ UNCHANGED <<shownVars, current>>
      \/ /\ bindings # <<>> /\ ~manual_content[schema]
         /\ WriteFile(schema, bindings, saving + 1)
         /\ UNCHANGED prompts

\* Mutant: only the schema that is shown
UnsavedShown(schema) == dirty[schema] /\ schema = current

Unsaved(schema) == dirty[schema]

\* The loop of OnOk over the schemas.  Nothing else happens while it runs: it
\* leaves the thread only for a box.
SaveNext ==
  /\ saving \in DOMAIN SchemaIds
  /\ IF Unsaved(SchemaIds[saving]) THEN SaveSchemaKeys(SchemaIds[saving])
     ELSE saving' = saving + 1 /\ UNCHANGED <<shownVars, current, prompts>>
  /\ UNCHANGED <<capture, result, pressed>>

\* EndDialog(IDOK) when it is through
SavedAll ==
  /\ saving = Len(SchemaIds) + 1
  /\ saving' = 0 /\ result' = "ok"
  /\ UNCHANGED <<shownVars, current, capture, prompts, pressed>>

-----------------------------------------------------------------------------
(* The user and the dialog.                                                *)

Idle == saving = 0

\* The box of PollCapturedKey belongs to the dialog and disables it; those of
\* ConfirmByIds belong to no window.
Enabled == Idle /\ result = "open" /\ \A i \in DOMAIN prompts : prompts[i].kind # "used"

StopCapture == capture' = NoGroup

OnInitDialog(schema) ==
  /\ Idle /\ result # "open" /\ prompts = <<>>
  /\ keys' = [s \in Schemas |-> LoadSchemaKeys(s, file[s]).keys]
  /\ manual_content' = [s \in Schemas |-> LoadSchemaKeys(s, file[s]).manual_content]
  /\ dirty' = [s \in Schemas |-> FALSE]
  /\ current' = schema
  /\ StopCapture
  /\ lost' = {} /\ result' = "open"
  /\ UNCHANGED <<prompts, saving, file, pressed, faults>>

OnSchemaSelChange(schema) ==
  /\ Enabled
  /\ StopCapture /\ current' = schema
  /\ UNCHANGED <<shownVars, prompts, saving, result, pressed>>

OnKeyBtn(group) ==
  /\ Enabled
  /\ capture' = group
  /\ UNCHANGED <<shownVars, current, prompts, saving, result, pressed>>

\* what is written has been collected, or the dialog has ended
TooLate == result # "open" \/ \E i \in DOMAIN prompts : prompts[i].kind = "overwrite"

Change(key) ==
  /\ StopCapture
  /\ keys' = [keys EXCEPT ![current][capture] = key]
  /\ dirty' = [dirty EXCEPT ![current] = TRUE]
  /\ lost' = IF TooLate THEN lost \cup {current} ELSE lost
  /\ UNCHANGED <<manual_content, prompts, file, faults>>

\* Mutant: the default is nothing to save
BackSpaceClean ==
  /\ StopCapture
  /\ keys' = [keys EXCEPT ![current][capture] = DefaultKeys[current][capture]]
  /\ UNCHANGED <<manual_content, dirty, prompts, file, lost, faults>>

\* the default of the group, whether or not another group has it now
BackSpace == Change(DefaultKeys[current][capture])

UsedElsewhere(key) == \E g \in Groups \ {capture} : keys[current][g] = key

\* The timer finds a key that was pressed, wherever it was pressed.
PollCapturedKey ==
  /\ Idle /\ capture # NoGroup /\ (result = "open" \/ prompts # <<>>)
  /\ pressed < MaxPressed /\ pressed' = pressed + 1
  /\ \/ StopCapture /\ UNCHANGED <<shownVars, prompts>>
     \/ BackSpace
     \/ \E key \in Keys : ~UsedElsewhere(key) /\ Change(key)
     \/ /\ \E key \in Keys : UsedElsewhere(key)
        /\ NextPrompt /\ Prompt(UsedPrompt)
        /\ UNCHANGED <<shownVars, capture>>
  /\ UNCHANGED <<current, saving, result>>

OnRestore ==
  /\ Enabled
  /\ StopCapture
  /\ NextPrompt /\ Prompt(RestorePrompt(current))
  /\ UNCHANGED <<shownVars, current, saving, result, pressed>>

OnOk ==
  /\ Enabled
  /\ StopCapture
  /\ NextPrompt /\ saving' = 1
  /\ UNCHANGED <<shownVars, current, prompts, result, pressed>>

OnCancel ==
  /\ Enabled
  /\ StopCapture /\ result' = "cancel"
  /\ UNCHANGED <<shownVars, current, prompts, saving, pressed>>

\* The box that was opened last returns to the handler that waits for it.
TopPrompt == Last(prompts)
Answers(kind) ==
  /\ Idle /\ prompts # <<>> /\ TopPrompt.kind = kind
  /\ prompts' = Front(prompts)
  /\ UNCHANGED <<capture, result, pressed>>

Dismiss ==
  /\ Answers("used")
  /\ UNCHANGED <<shownVars, current, saving>>

AnswerNo ==
  \/ Answers("restore") /\ UNCHANGED <<shownVars, current, saving>>
  \/ Answers("overwrite") /\ StayOpen(TopPrompt.schema)

SetDefaults(schema) == keys' = [keys EXCEPT ![schema] = DefaultKeys[schema]]

ConfirmRestore ==
  /\ Answers("restore")
  /\ RemoveFile(TopPrompt.schema) /\ SetDefaults(TopPrompt.schema)
  /\ UNCHANGED <<current, saving>>

\* the rest of SaveSchemaKeys, and on with the loop of OnOk
ConfirmOverwrite ==
  /\ Answers("overwrite")
  /\ \E i \in DOMAIN SchemaIds :
       /\ SchemaIds[i] = TopPrompt.schema
       /\ WriteFile(TopPrompt.schema, TopPrompt.bindings, i + 1)

-----------------------------------------------------------------------------
Init ==
  /\ keys = DefaultKeys
  /\ manual_content = [s \in Schemas |-> FALSE]
  /\ dirty = [s \in Schemas |-> FALSE]
  /\ current = Head(SchemaIds)
  /\ capture = NoGroup
  /\ prompts = <<>> /\ saving = 0 /\ result = "none"
  /\ file \in [Schemas -> Files]
  /\ lost = {}
  /\ pressed = 0 /\ faults = 0

Next ==
  \/ \E schema \in Schemas : OnInitDialog(schema) \/ OnSchemaSelChange(schema)
  \/ \E group \in Groups : OnKeyBtn(group)
  \/ PollCapturedKey \/ OnRestore \/ OnOk \/ SaveNext \/ SavedAll \/ OnCancel
  \/ Dismiss \/ AnswerNo \/ ConfirmRestore \/ ConfirmOverwrite

Spec == Init /\ [][Next]_vars

-----------------------------------------------------------------------------
(* Properties                                                              *)

\* A schema that has nothing left to save shows what is in its file, through
\* any interleaving of captures, restores, refusals and boxes (dirty_).  Left
\* out is what lost records: a file that could not be removed, and a change
\* made while the box about overwriting was open or the dialog had ended.
ShownIsSaved ==
  result \in {"open", "ok"} =>
    \A schema \in Schemas :
      ~dirty[schema] /\ schema \notin lost =>
        keys[schema] = Bound(DefaultKeys[schema], file[schema].bindings)

\* After OK nothing is left to save in any schema, not only the one shown.
OkSavesAll ==
  result = "ok" /\ prompts = <<>> =>
    \A schema \in Schemas \ lost : ~dirty[schema]

\* The work of the user in a file goes only after a box that asked about this
\* file, or when all keys of the schema are the defaults (manual_content_).
\* A removal that failed had been asked for.
HandWorkIsAsked ==
  [][\A schema \in Schemas :
       HandWork(file[schema]) /\ result = "open" /\ file'[schema] # file[schema] =>
         \/ prompts # <<>> /\ TopPrompt.kind # "used" /\ TopPrompt.schema = schema
         \/ keys[schema] = DefaultKeys[schema]
         \/ schema \in lost]_vars

\* The conditions that may hold together (KeyBindingConditions): the others
\* need a composition.
Holding == {{"always"}} \cup
  {{"always", "composing"} \cup more : more \in SUBSET {"predicting", "paging", "has_menu"}}

\* A condition holds under which the schema file itself binds the key.
BoundMoreSpecific(schema, key, conditions) ==
  \E i \in DOMAIN SchemaBindings[schema] :
    LET binding == SchemaBindings[schema][i]
    IN  binding.accept = key /\ binding.when \in conditions \ {"always"}

\* A key that is shown for one group only sends the digit of this group once
\* it is saved, also if it is the default key of another group or the schema
\* file gives it another meaning, unless a condition holds under which the
\* schema file binds it: minus still turns the page while there is a menu, and
\* a digit of the main row still selects a candidate (KeyBinder, to which the
\* patch adds bindings under no condition and takes none away).
ShownKeyTypes ==
  result \in {"open", "ok"} =>
    \A schema \in Schemas :
      /\ ~dirty[schema] /\ schema \notin lost
      /\ ~HandWork(file[schema])
      => \A g \in Groups :
           LET key == keys[schema][g]
           IN  (\A h \in Groups \ {g} : keys[schema][h] # key)
                 => \A conditions \in Holding :
                      ~BoundMoreSpecific(schema, key, conditions)
                        => Sends(schema, file[schema], key, conditions) = g

\* "the key is taken: after the prompt go on waiting for the next key"
\* (T9KeySettingsDialog.cpp:479): what is pressed while the box is still open
\* answers the box and is not bound.
NextKeyAfterPrompt ==
  [][prompts # <<>> /\ TopPrompt.kind = "used" => keys' = keys]_vars

=============================================================================
