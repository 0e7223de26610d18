-------------------------- MODULE MCT9KeySettings ---------------------------
EXTENDS T9KeySettings

\* As in the schemas, two keys of the keypad change places.
MCSchemaIds == <<"t9", "t9_pos">>
MCDefaultKeys ==
  "t9" :> (1 :> "KP_1" @@ 7 :> "KP_7") @@ "t9_pos" :> (1 :> "KP_7" @@ 7 :> "KP_1")

\* The key 1 of the main row selects a candidate, continues the code or is
\* swallowed; the default keys are bound under no condition.
MCSchemaBindings == [schema \in {"t9", "t9_pos"} |->
  <<Binding("1", "has_menu", NoGroup), Binding("1", "composing", 1),
    Binding("1", "always", NoGroup), Binding(MCDefaultKeys[schema][1], "always", 1),
    Binding(MCDefaultKeys[schema][7], "always", 7)>>]

\* None, a file without the marker, and one of the dialog with something added
MCFiles == {NoFile, File(FALSE, <<Binding("1", "composing", 7)>>, FALSE),
            File(TRUE, <<Binding("KP_1", "always", 7), Binding("1", "always", 1)>>, TRUE)}
=============================================================================
