--------------------------- MODULE MCSyllabifier ---------------------------
EXTENDS Syllabifier

\* All ways to spell the code between two positions with types out of choices
Spelled(n, longest, choices) ==
  LET spans == {s \in (0 .. n - 1) \X (1 .. longest) : s[1] + s[2] <= n}
  IN  {UNION {{Spelling(s[1], s[2], t) : t \in types[s]} : s \in spans} :
         types \in [spans -> choices]}

\* Four characters, with spellings of one or two
MCLong ==
  {[length |-> 4, delimiters |-> {}, strict |-> FALSE, spellings |-> S] :
     S \in Spelled(4, 2, {{}, {0}, {2}, {0, 2}})}

\* Three, with spellings of any length, and delimiters
MCShort ==
  {in \in [length : {3}, delimiters : {{}, {1}, {2}}, strict : BOOLEAN,
           spellings : Spelled(3, 3, {{}, {0}, {1}, {2}, {0, 2}})] :
     \A sp \in in.spellings : sp.from .. sp.from + sp.length - 1 \cap in.delimiters = {}}

MCInputs == MCLong \cup MCShort
=============================================================================
