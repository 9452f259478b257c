------------------------------- MODULE Chunker -------------------------------
(***************************************************************************)
(* MarkdownChunker.chunk: the lines of a note become blocks, blocks above   *)
(* the maximum are split, pieces are grouped up to the target, and each     *)
(* group becomes a chunk that repeats the end of the one before it.        *)
(*                                                                         *)
(* A token is its position in the note.  A line says what the patterns      *)
(* match on it and how many tokens the note has up to its end.  A bar may   *)
(* stand in a line of any kind; a separator of tables is a line with bars   *)
(* that opens with one or with dashes.                                      *)
(***************************************************************************)
EXTENDS Integers, Sequences, FiniteSetsExt

CONSTANTS
  Documents, \* notes
  Configs    \* ChunkerConfigs

Fence == {"backticks", "tildes"}
Kind == {"blank", "heading", "list", "indented", "text"} \cup Fence
Line == [kind : Kind, bar : {"none", "bar", "separator"}, level : 0 .. 6, upto : Nat]

Upto(doc, k) == IF k = 0 THEN 0 ELSE doc[k].upto

ASSUME ChunkerAssumption ==
  /\ \A doc \in Documents :
       /\ doc \in Seq(Line)
       /\ \A k \in DOMAIN doc :
            /\ IF doc[k].kind = "blank" THEN Upto(doc, k) = Upto(doc, k - 1)
                                        ELSE Upto(doc, k) > Upto(doc, k - 1)
            /\ doc[k].kind = "heading" => doc[k].level # 0
            /\ doc[k].kind = "blank" => doc[k].bar = "none"
            /\ doc[k].bar = "separator" => doc[k].kind \in {"indented", "text"}
  /\ \A c \in Configs :
       /\ c \in [target : Nat, maximum : Nat, overlap : Nat]
       /\ 0 < c.target /\ c.target <= c.maximum
       /\ c.overlap < c.target

VARIABLES
  doc, config,
  pc,       \* the loop at work: "blocks", "groups", "chunks"; or "done"
  index,    \* the next line
  headings, \* the open headings, by their lines
  blocks,
  next,     \* the next piece: a block and its first token
  current,  \* the group being filled
  groups,
  chunks,
  previous  \* the tokens of the last chunk

inputVars == <<doc, config>>
parseVars == <<index, headings, blocks>>
groupVars == <<next, current, groups>>
chunkVars == <<chunks, previous>>
vars == <<inputVars, pc, parseVars, groupVars, chunkVars>>

Position == Nat \ {0}

(* Lines from .. to, tokens first .. last.                                 *)
Block == [kind : {"heading", "code", "table", "list", "paragraph"}, path : Seq(Position),
          from : Position, to : Position, first : Position, last : Position]
Group == [path : Seq(Position), from : Nat, to : Nat, parts : Nat, tokens : Seq(Position)]
Chunk == [path : Seq(Position), from : Nat, to : Nat, overlap : Seq(Position),
          body : Seq(Position)]

TypeOK ==
  /\ doc \in Seq(Line)
  /\ config \in Configs
  /\ pc \in {"blocks", "groups", "chunks", "done"}
  /\ index \in 1 .. Len(doc) + 1
  /\ headings \in Seq(Position)
  /\ blocks \in Seq(Block)
  /\ next \in [block : Position, token : Position]
  /\ current \in Group
  /\ groups \in Seq(Group)
  /\ chunks \in Seq(Chunk)
  /\ previous \in Seq(Position)

NoGroup == [path |-> <<>>, from |-> 0, to |-> 0, parts |-> 0, tokens |-> <<>>]

Init ==
  /\ doc \in Documents
  /\ config \in Configs
  /\ pc = "blocks"
  /\ index = 1
  /\ headings = <<>>
  /\ blocks = <<>>
  /\ next = [block |-> 1, token |-> 1]
  /\ current = NoGroup
  /\ groups = <<>>
  /\ chunks = <<>>
  /\ previous = <<>>

-----------------------------------------------------------------------------
(* Faulty variants of some definitions below, for mutation checks only.    *)

SplitAtTarget(first, last) == Min({first + config.target - 1, last})
SectionsForgotten(block, piece) ==
  \/ current.parts > 0 /\ Len(current.tokens) + Len(piece) > config.target
  \/ Len(current.tokens) + Len(piece) > config.maximum
LastGroupForgotten ==
  /\ pc = "groups"
  /\ next.block > Len(blocks)
  /\ pc' = "chunks"
  /\ UNCHANGED <<inputVars, parseVars, groupVars, chunkVars>>
AvailableUnchecked(body) ==
  LET last(tokens, limit) == IF limit = 0 \/ limit >= Len(tokens) THEN tokens
                             ELSE SubSeq(tokens, Len(tokens) - limit + 1, Len(tokens))
  IN  IF chunks # <<>> /\ config.overlap > 0
      THEN last(previous, Min({config.overlap, config.maximum - Len(body)})) ELSE <<>>

-----------------------------------------------------------------------------
(* _markdown_blocks.                                                       *)

KindAt(k) == doc[k].kind

TableAt(k) ==
  /\ k < Len(doc)
  /\ doc[k].bar # "none"
  /\ doc[k + 1].bar = "separator"

StartsSpecial(k) == KindAt(k) \in {"heading", "list"} \cup Fence \/ TableAt(k)

(* The line after a block that ends before the first of the lines stops.    *)
Before(stops) == Min(stops \cup {Len(doc) + 1})
Later(k) == k + 1 .. Len(doc)

(* Headings and fences are looked for before tables, and tables before      *)
(* lists.                                                                  *)
BlockKind(k) ==
  CASE KindAt(k) = "heading" -> "heading"
    [] KindAt(k) \in Fence -> "code"
    [] KindAt(k) \notin {"heading"} \cup Fence /\ TableAt(k) -> "table"
    [] KindAt(k) = "list" /\ ~ TableAt(k) -> "list"
    [] OTHER -> "paragraph"

(* A fence without its end takes the rest of the note, and a table every    *)
(* line with a bar, whatever else the line is.                             *)
After(k) ==
  CASE BlockKind(k) = "heading" -> k + 1
    [] BlockKind(k) = "code" -> Min({Before({j \in Later(k) : KindAt(j) = KindAt(k)}) + 1,
                                     Len(doc) + 1})
    [] BlockKind(k) = "table" -> Before({j \in Later(k + 1) : doc[j].bar = "none"})
    [] BlockKind(k) = "list" ->
         Before({j \in Later(k) : KindAt(j) \notin {"list", "indented"}})
    [] OTHER -> Before({j \in Later(k) : KindAt(j) = "blank" \/ StartsSpecial(j)})

(* headings[: level - 1], and the new one.                                  *)
Path(k) ==
  IF KindAt(k) = "heading"
  THEN Append(SubSeq(headings, 1, Min({doc[k].level - 1, Len(headings)})), k)
  ELSE headings

SkipBlank ==
  /\ pc = "blocks"
  /\ index <= Len(doc)
  /\ KindAt(index) = "blank"
  /\ index' = index + 1
  /\ UNCHANGED <<inputVars, pc, headings, blocks, groupVars, chunkVars>>

ParseBlock ==
  /\ pc = "blocks"
  /\ index <= Len(doc)
  /\ KindAt(index) # "blank"
  /\ headings' = Path(index)
  /\ blocks' = Append(blocks,
       [kind |-> BlockKind(index), path |-> Path(index), from |-> index,
        to |-> After(index) - 1, first |-> Upto(doc, index - 1) + 1,
        last |-> Upto(doc, After(index) - 1)])
  /\ index' = After(index)
  /\ UNCHANGED <<inputVars, pc, groupVars, chunkVars>>

EndBlocks ==
  /\ pc = "blocks"
  /\ index > Len(doc)
  /\ pc' = IF blocks = <<>> THEN "done" ELSE "groups"
  /\ UNCHANGED <<inputVars, parseVars, groupVars, chunkVars>>

-----------------------------------------------------------------------------
(* _split_oversized_blocks and the loop that groups its pieces.             *)

Tokens(first, last) == [k \in 1 .. last - first + 1 |-> first + k - 1]

LastOfPiece(first, last) == Min({first + config.maximum - 1, last})

Piece == Tokens(next.token, LastOfPiece(next.token, blocks[next.block].last))

(* starts_section, exceeds_target, exceeds_max.                             *)
Closes(block, piece) ==
  \/ block.kind = "heading" /\ current.parts > 0
  \/ current.parts > 0 /\ Len(current.tokens) + Len(piece) > config.target
  \/ Len(current.tokens) + Len(piece) > config.maximum

NewGroup(block, piece) ==
  [path |-> block.path, from |-> block.from, to |-> block.to, parts |-> 1, tokens |-> piece]
Extended(group, block, piece) ==
  [group EXCEPT !.to = block.to, !.parts = @ + 1, !.tokens = @ \o piece]

AddPiece ==
  LET block == blocks[next.block] IN
  /\ pc = "groups"
  /\ next.block <= Len(blocks)
  /\ \/ /\ Closes(block, Piece)
        /\ groups' = Append(groups, current)
        /\ current' = NewGroup(block, Piece)
     \/ /\ ~ Closes(block, Piece)
        /\ current' = IF current.parts = 0 THEN NewGroup(block, Piece)
                      ELSE Extended(current, block, Piece)
        /\ UNCHANGED groups
  /\ next' = IF next.token + Len(Piece) <= block.last
             THEN [next EXCEPT !.token = @ + Len(Piece)]
             ELSE [block |-> next.block + 1, token |-> block.last + 1]
  /\ UNCHANGED <<inputVars, pc, parseVars, chunkVars>>

EndGroups ==
  /\ pc = "groups"
  /\ next.block > Len(blocks)
  /\ groups' = Append(groups, current)
  /\ pc' = "chunks"
  /\ UNCHANGED <<inputVars, parseVars, next, current, chunkVars>>

-----------------------------------------------------------------------------
(* The overlap.                                                            *)

(* _tail_tokens: tokens[-limit:], which is all of them for a limit of 0.    *)
LastTokens(tokens, limit) ==
  IF limit = 0 \/ limit >= Len(tokens) THEN tokens
  ELSE SubSeq(tokens, Len(tokens) - limit + 1, Len(tokens))

Overlap(body) ==
  LET tail == LastTokens(previous, config.overlap)
      available == config.maximum - Len(body)
  IN  IF chunks # <<>> /\ config.overlap > 0 /\ tail # <<>> /\ available > 0
      THEN LastTokens(tail, Min({config.overlap, available})) ELSE <<>>

EmitChunk ==
  LET group == groups[Len(chunks) + 1]
      overlap == Overlap(group.tokens)
  IN
  /\ pc = "chunks"
  /\ Len(chunks) < Len(groups)
  /\ chunks' = Append(chunks,
       [path |-> group.path, from |-> group.from, to |-> group.to,
        overlap |-> overlap, body |-> group.tokens])
  /\ previous' = overlap \o group.tokens
  /\ UNCHANGED <<inputVars, pc, parseVars, groupVars>>

EndChunks ==
  /\ pc = "chunks"
  /\ Len(chunks) = Len(groups)
  /\ pc' = "done"
  /\ UNCHANGED <<inputVars, parseVars, groupVars, chunkVars>>

Next ==
  \/ SkipBlank \/ ParseBlock \/ EndBlocks
  \/ AddPiece \/ EndGroups
  \/ EmitChunk \/ EndChunks

Spec == Init /\ [][Next]_vars

-----------------------------------------------------------------------------
(* Properties.                                                             *)

Content(chunk) == chunk.overlap \o chunk.body
LastOf(tokens) == tokens[Len(tokens)]

(* No chunk is empty and none passes the maximum, overlap included; a group *)
(* passes the target only if it is a single piece.                         *)
LimitKept ==
  /\ \A k \in DOMAIN chunks :
       chunks[k].body # <<>> /\ Len(Content(chunks[k])) <= config.maximum
  /\ \A k \in DOMAIN groups :
       Len(groups[k].tokens) > config.target => groups[k].parts = 1

(* The bodies of the chunks are the note, token by token and in order, and  *)
(* what a chunk repeats is what stands right before its body.               *)
NothingLost ==
  /\ \A k \in DOMAIN chunks :
       LET first == IF k = 1 THEN 1 ELSE LastOf(chunks[k - 1].body) + 1 IN
       Content(chunks[k]) =
         Tokens(first - Len(chunks[k].overlap), LastOf(chunks[k].body))
  /\ pc = "done" =>
       Upto(doc, Len(doc)) = IF chunks = <<>> THEN 0 ELSE LastOf(chunks[Len(chunks)].body)

(* A block that fits into a chunk is not cut.                              *)
BlocksKept ==
  pc = "chunks" =>
    \A b \in DOMAIN blocks : blocks[b].last - blocks[b].first < config.maximum =>
      \E g \in DOMAIN groups : LET tokens == groups[g].tokens IN
        tokens[1] <= blocks[b].first /\ blocks[b].last <= LastOf(tokens)

(* In a note whose headings skip no level, a chunk names the headings that  *)
(* stand over every one of its lines; comments of code blocks are no        *)
(* headings.                                                               *)
HeadingLines == {blocks[b].from : b \in {c \in DOMAIN blocks : blocks[c].kind = "heading"}}
Above(k) == {h \in HeadingLines :
               h <= k /\ \A g \in HeadingLines : h < g /\ g <= k => doc[g].level > doc[h].level}
NoLevelSkipped ==
  \A h \in HeadingLines : {doc[g].level : g \in Above(h)} = 1 .. doc[h].level

SectionsKept ==
  NoLevelSkipped =>
    \A k \in DOMAIN chunks : \A line \in chunks[k].from .. chunks[k].to :
      {chunks[k].path[n] : n \in DOMAIN chunks[k].path} = Above(line)

=============================================================================
