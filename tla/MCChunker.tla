------------------------------ MODULE MCChunker ------------------------------
(* Instances of Chunker for TLC.                                           *)
EXTENDS Chunker

CONSTANT MaxLines \* the longest note

(* Lines with the tokens they have: short ones, and a text above the limit. *)
Plain(kind, level, tokens) == [kind |-> kind, bar |-> "none", level |-> level, tokens |-> tokens]
Barred(kind, bar, level, tokens) == [Plain(kind, level, tokens) EXCEPT !.bar = bar]

Shapes == {
  Plain("blank", 0, 0), Plain("heading", 1, 2), Plain("heading", 2, 2),
  Plain("backticks", 0, 1), Plain("tildes", 0, 1), Plain("list", 0, 2),
  Plain("indented", 0, 1), Plain("text", 0, 1), Plain("text", 0, 7),
  Barred("text", "bar", 0, 2), Barred("text", "separator", 0, 1),
  Barred("heading", "bar", 1, 3), Barred("list", "bar", 0, 3),
  Barred("indented", "separator", 0, 1) }

Note(lines) ==
  LET upto[k \in 0 .. Len(lines)] == IF k = 0 THEN 0 ELSE upto[k - 1] + lines[k].tokens IN
  [k \in DOMAIN lines |-> [kind |-> lines[k].kind, bar |-> lines[k].bar,
                           level |-> lines[k].level, upto |-> upto[k]]]

MCDocuments == {Note(lines) : lines \in UNION {[1 .. n -> Shapes] : n \in 0 .. MaxLines}}

MCConfigs == {
  [target |-> 2, maximum |-> 3, overlap |-> 1],
  [target |-> 3, maximum |-> 3, overlap |-> 2],
  [target |-> 3, maximum |-> 5, overlap |-> 0] }

=============================================================================
