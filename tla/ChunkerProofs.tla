---------------------------- MODULE ChunkerProofs ----------------------------
(***************************************************************************)
(* Proofs about Chunker, for every note and every configuration: the type   *)
(* invariant, the limit on the chunks, that the chunks are the note, and    *)
(* that they name the headings over their lines.                           *)
(*                                                                         *)
(* Two facts rest on an induction over the lines of a note (the tokens up   *)
(* to a line grow with the line; a loop over the lines stops at the first   *)
(* that ends it); both are proved from the least counterexample.           *)
(***************************************************************************)
EXTENDS Chunker, SequenceTheorems, WellFoundedInduction, TLAPS

-----------------------------------------------------------------------------
(* Least elements.                                                         *)

LEMMA NatWellFounded == IsWellFoundedOn({p \in Nat \X Nat : p[1] < p[2]}, Nat)
  BY NatLessThanWellFounded DEF OpToRel

LEMMA LeastNatural ==
  ASSUME NEW T \in SUBSET Nat, T # {}
  PROVE  \E n \in T : \A k \in T : n <= k
<1> DEFINE R == {p \in Nat \X Nat : p[1] < p[2]}
<1>1. IsWellFoundedOn(R, Nat)
  BY NatWellFounded
<1>2. PICK n \in T : \A k \in T : ~ (<<k, n>> \in R)
  <2> HIDE DEF R
  <2> QED BY <1>1, WFMin, Zenon
<1>3. ASSUME NEW k \in T PROVE n <= k
  <2>1. k \in Nat /\ n \in Nat
    OBVIOUS
  <2>2. k < n => <<k, n>> \in R
    BY <2>1
  <2> QED BY <1>2, <2>1, <2>2
<1> QED BY <1>3

LEMMA MinIsLeast ==
  ASSUME NEW S \in SUBSET Nat, S # {}
  PROVE  Min(S) \in S /\ \A k \in S : Min(S) <= k
  BY LeastNatural DEF Min

LEMMA MinOfTwo ==
  ASSUME NEW a \in Nat, NEW b \in Nat
  PROVE  Min({a, b}) = IF a <= b THEN a ELSE b
<1>1. Min({a, b}) \in {a, b} /\ \A k \in {a, b} : Min({a, b}) <= k
  <2>1. {a, b} \in SUBSET Nat /\ {a, b} # {}
    OBVIOUS
  <2> QED BY <2>1, MinIsLeast
<1> QED BY <1>1

-----------------------------------------------------------------------------
(* Runs of tokens.                                                         *)

LEMMA TokensAre ==
  ASSUME NEW a \in Position, NEW b \in Nat, a <= b + 1
  PROVE  /\ Tokens(a, b) \in Seq(Position)
         /\ Len(Tokens(a, b)) = b - a + 1
         /\ \A k \in 1 .. b - a + 1 : Tokens(a, b)[k] = a + k - 1
<1> DEFINE n == b - a + 1
<1>1. n \in Nat /\ a \in Nat /\ a >= 1
  BY DEF Position
<1>2. Tokens(a, b) \in [1 .. n -> Position]
  BY <1>1 DEF Tokens, Position
<1>3. Tokens(a, b) \in Seq(Position)
  BY <1>1, <1>2, SeqDef
<1>4. Len(Tokens(a, b)) = n
  <2>1. DOMAIN Tokens(a, b) = 1 .. n
    BY <1>2
  <2>2. /\ DOMAIN Tokens(a, b) = 1 .. Len(Tokens(a, b))
        /\ Len(Tokens(a, b)) \in Nat
    BY <1>3, LenProperties
  <2> QED BY <1>1, <2>1, <2>2
<1>5. \A k \in 1 .. n : Tokens(a, b)[k] = a + k - 1
  BY DEF Tokens
<1> QED BY <1>3, <1>4, <1>5

LEMMA TokensJoin ==
  ASSUME NEW a \in Position, NEW b \in Nat, NEW c \in Nat, a <= b + 1, b <= c
  PROVE  Tokens(a, b) \o Tokens(b + 1, c) = Tokens(a, c)
<1> DEFINE s == Tokens(a, b)
           t == Tokens(b + 1, c)
           u == Tokens(a, c)
<1>0. b + 1 \in Position /\ b + 1 <= c + 1 /\ a <= c + 1 /\ a \in Nat
  BY DEF Position
<1>1. /\ s \in Seq(Position) /\ Len(s) = b - a + 1
      /\ \A k \in 1 .. b - a + 1 : s[k] = a + k - 1
  BY TokensAre
<1>2. /\ t \in Seq(Position) /\ Len(t) = c - (b + 1) + 1
      /\ \A k \in 1 .. c - (b + 1) + 1 : t[k] = (b + 1) + k - 1
  BY <1>0, TokensAre
<1>3. /\ u \in Seq(Position) /\ Len(u) = c - a + 1
      /\ \A k \in 1 .. c - a + 1 : u[k] = a + k - 1
  BY <1>0, TokensAre
<1> HIDE DEF s, t, u
<1>4. /\ s \o t \in Seq(Position) /\ Len(s \o t) = Len(s) + Len(t)
      /\ \A i \in 1 .. Len(s) + Len(t) :
           (s \o t)[i] = IF i <= Len(s) THEN s[i] ELSE t[i - Len(s)]
  BY <1>1, <1>2, ConcatProperties
<1>5. Len(s \o t) = Len(u)
  BY <1>0, <1>1, <1>2, <1>3, <1>4
<1>6. ASSUME NEW i \in 1 .. Len(s \o t) PROVE (s \o t)[i] = u[i]
  <2>1. i \in 1 .. c - a + 1 /\ i \in 1 .. Len(s) + Len(t)
    BY <1>3, <1>4, <1>5
  <2>2. CASE i <= Len(s)
    <3>1. i \in 1 .. b - a + 1
      BY <1>0, <1>1, <2>1, <2>2
    <3> QED BY <1>1, <1>3, <1>4, <2>1, <2>2, <3>1
  <2>3. CASE ~ (i <= Len(s))
    <3>1. i - Len(s) \in 1 .. c - (b + 1) + 1
      BY <1>0, <1>1, <2>1, <2>3
    <3>2. t[i - Len(s)] = (b + 1) + (i - Len(s)) - 1
      BY <1>2, <3>1
    <3> QED BY <1>0, <1>1, <1>3, <1>4, <2>1, <2>3, <3>2
  <2> QED BY <2>2, <2>3
<1>7. s \o t = u
  BY <1>3, <1>4, <1>5, <1>6, SeqEqual
<1> QED BY <1>7 DEF s, t, u

LEMMA TokensTail ==
  ASSUME NEW a \in Position, NEW b \in Nat, a <= b, NEW l \in Nat,
         l # 0, l < b - a + 1
  PROVE  LastTokens(Tokens(a, b), l) = Tokens(b - l + 1, b)
<1> DEFINE s == Tokens(a, b)
           u == Tokens(b - l + 1, b)
           m == b - a + 1 - l + 1
           n == b - a + 1
<1>0. /\ a \in Nat /\ b - l + 1 \in Position /\ b - l + 1 <= b + 1 /\ m \in Nat /\ n \in Nat
      /\ m <= n /\ m >= 1
  BY DEF Position
<1>1. s \in Seq(Position) /\ Len(s) = n /\ \A k \in 1 .. n : s[k] = a + k - 1
  <2>1. a <= b + 1
    BY <1>0
  <2> QED BY <2>1, TokensAre
<1>2. /\ u \in Seq(Position) /\ Len(u) = b - (b - l + 1) + 1
      /\ \A k \in 1 .. b - (b - l + 1) + 1 : u[k] = (b - l + 1) + k - 1
  BY <1>0, TokensAre
<1>3. LastTokens(s, l) = SubSeq(s, m, n)
  <2>1. Len(s) - l + 1 = m /\ Len(s) = n /\ ~ (l = 0 \/ l >= Len(s))
    BY <1>0, <1>1
  <2> HIDE DEF s, m, n
  <2> QED BY <2>1 DEF LastTokens
<1> HIDE DEF s, u
<1>4. \A i \in m .. n : s[i] \in Position
  BY <1>0, <1>1 DEF Position
<1>5. /\ SubSeq(s, m, n) \in Seq(Position)
      /\ Len(SubSeq(s, m, n)) = IF m <= n THEN n - m + 1 ELSE 0
      /\ \A i \in 1 .. n - m + 1 : SubSeq(s, m, n)[i] = s[m + i - 1]
  <2> HIDE DEF m, n
  <2> QED BY <1>0, <1>4, SubSeqProperties
<1>6. n - m + 1 = l /\ b - (b - l + 1) + 1 = l
  BY <1>0
<1>7. Len(SubSeq(s, m, n)) = Len(u)
  BY <1>0, <1>2, <1>5, <1>6
<1>8. ASSUME NEW i \in 1 .. Len(SubSeq(s, m, n)) PROVE SubSeq(s, m, n)[i] = u[i]
  <2>1. i \in 1 .. l
    BY <1>0, <1>5, <1>6
  <2>2. m + i - 1 \in 1 .. n
    BY <1>0, <2>1
  <2>3. SubSeq(s, m, n)[i] = a + (m + i - 1) - 1
    BY <1>1, <1>5, <1>6, <2>1, <2>2
  <2>4. u[i] = (b - l + 1) + i - 1
    BY <1>2, <1>6, <2>1
  <2> QED BY <1>0, <2>1, <2>3, <2>4
<1>9. SubSeq(s, m, n) = u
  <2> HIDE DEF m, n
  <2> QED BY <1>2, <1>5, <1>7, <1>8, SeqEqual
<1> QED BY <1>3, <1>9 DEF s, u

-----------------------------------------------------------------------------
(* The lines of the note.                                                  *)

LEMMA NoteTyped ==
  ASSUME doc \in Documents
  PROVE  /\ doc \in Seq(Line) /\ Len(doc) \in Nat /\ DOMAIN doc = 1 .. Len(doc)
         /\ \A k \in 1 .. Len(doc) : doc[k].upto \in Nat /\ doc[k].level \in 0 .. 6
  <1>1. doc \in Seq(Line)
    BY ChunkerAssumption
  <1>2. Len(doc) \in Nat /\ DOMAIN doc = 1 .. Len(doc) /\ doc \in [1 .. Len(doc) -> Line]
    BY <1>1, LenProperties
  <1> QED BY <1>1, <1>2 DEF Line

LEMMA UptoSteps ==
  ASSUME doc \in Documents, NEW k \in 1 .. Len(doc)
  PROVE  /\ Upto(doc, k) \in Nat /\ Upto(doc, k - 1) \in Nat
         /\ Upto(doc, k - 1) <= Upto(doc, k)
         /\ KindAt(k) = "blank" => Upto(doc, k) = Upto(doc, k - 1)
         /\ KindAt(k) # "blank" => Upto(doc, k) > Upto(doc, k - 1)
<1>1. /\ Upto(doc, k) \in Nat /\ Upto(doc, k - 1) \in Nat
  BY NoteTyped DEF Upto
<1>2. IF doc[k].kind = "blank" THEN Upto(doc, k) = Upto(doc, k - 1)
                               ELSE Upto(doc, k) > Upto(doc, k - 1)
  BY ChunkerAssumption, NoteTyped
<1> QED BY <1>1, <1>2 DEF KindAt

(* The induction: the first line where the count falls would follow one     *)
(* where it does not.                                                      *)
LEMMA UptoGrows ==
  ASSUME doc \in Documents, NEW j \in 0 .. Len(doc), NEW k \in j .. Len(doc)
  PROVE  Upto(doc, j) \in Nat /\ Upto(doc, k) \in Nat /\ Upto(doc, j) <= Upto(doc, k)
<1>0. \A i \in 0 .. Len(doc) : Upto(doc, i) \in Nat
  BY NoteTyped DEF Upto
<1>1. j \in Nat /\ k \in Nat /\ Len(doc) \in Nat
  BY NoteTyped
<1> DEFINE T == {i \in j .. Len(doc) : ~ (Upto(doc, j) <= Upto(doc, i))}
<1>2. ASSUME T # {} PROVE FALSE
  <2>1. T \in SUBSET Nat
    BY <1>1
  <2>2. PICK i \in T : \A h \in T : i <= h
    <3> HIDE DEF T
    <3> QED BY <1>2, <2>1, LeastNatural
  <2>3. i \in j .. Len(doc) /\ ~ (Upto(doc, j) <= Upto(doc, i))
    BY <2>2
  <2>4. i # j
    BY <1>0, <1>1, <2>3
  <2>5. i - 1 \in j .. Len(doc) /\ i \in 1 .. Len(doc)
    BY <1>1, <2>3, <2>4
  <2>6. i - 1 \notin T
    BY <1>1, <2>2, <2>5
  <2>7. Upto(doc, j) <= Upto(doc, i - 1)
    BY <2>5, <2>6
  <2>8. /\ Upto(doc, i - 1) <= Upto(doc, i) /\ Upto(doc, i) \in Nat
        /\ Upto(doc, i - 1) \in Nat
    BY <2>5, UptoSteps
  <2>9. Upto(doc, j) \in Nat
    BY <1>0
  <2> QED BY <2>3, <2>7, <2>8, <2>9
<1>3. k \notin T
  BY <1>2
<1>4. Upto(doc, j) <= Upto(doc, k)
  BY <1>3
<1>5. k \in 0 .. Len(doc)
  BY <1>1
<1> QED BY <1>0, <1>4, <1>5

LEMMA BeforeStops ==
  ASSUME doc \in Documents, NEW k \in 1 .. Len(doc), NEW stops \in SUBSET (k + 1 .. Len(doc))
  PROVE  Before(stops) \in k + 1 .. Len(doc) + 1
<1>1. k \in Nat /\ Len(doc) \in Nat
  BY NoteTyped
<1> DEFINE S == stops \cup {Len(doc) + 1}
<1>2. S \in SUBSET Nat /\ S # {} /\ S \subseteq k + 1 .. Len(doc) + 1
  <2>1. \A i \in stops : i \in Nat /\ i \in k + 1 .. Len(doc) + 1
    <3>1. \A i \in k + 1 .. Len(doc) : i \in Nat /\ i \in k + 1 .. Len(doc) + 1
      BY <1>1
    <3> QED BY <3>1
  <2>2. Len(doc) + 1 \in Nat /\ Len(doc) + 1 \in k + 1 .. Len(doc) + 1
    BY <1>1
  <2> QED BY <2>1, <2>2
<1>3. Min(S) \in S
  <2> HIDE DEF S
  <2> QED BY <1>2, MinIsLeast
<1> QED BY <1>2, <1>3 DEF Before

LEMMA KindOfBlock ==
  ASSUME NEW k \in Nat
  PROVE  /\ BlockKind(k) \in {"heading", "code", "table", "list", "paragraph"}
         /\ BlockKind(k) = "table" => TableAt(k)
         /\ BlockKind(k) = "heading" <=> KindAt(k) = "heading"
<1>1. CASE KindAt(k) = "heading"
  <2>1. KindAt(k) \notin Fence /\ KindAt(k) # "list" /\ KindAt(k) \in {"heading"} \cup Fence
    BY <1>1 DEF Fence
  <2>2. BlockKind(k) = "heading"
    BY <1>1, <2>1, Zenon DEF BlockKind
  <2> QED BY <1>1, <2>2
<1>2. CASE KindAt(k) \in Fence
  <2>1. KindAt(k) # "heading" /\ KindAt(k) # "list" /\ KindAt(k) \in {"heading"} \cup Fence
    BY <1>2 DEF Fence
  <2>2. BlockKind(k) = "code"
    BY <1>2, <2>1, Zenon DEF BlockKind
  <2> QED BY <2>1, <2>2
<1>3. CASE KindAt(k) \notin {"heading"} \cup Fence /\ TableAt(k)
  <2>1. KindAt(k) # "heading" /\ KindAt(k) \notin Fence
    BY <1>3
  <2>2. BlockKind(k) = "table"
    BY <1>3, <2>1, Zenon DEF BlockKind
  <2> QED BY <1>3, <2>1, <2>2
<1>4. CASE KindAt(k) = "list" /\ ~ TableAt(k)
  <2>1. KindAt(k) \notin Fence /\ KindAt(k) # "heading"
    BY <1>4 DEF Fence
  <2>2. BlockKind(k) = "list"
    BY <1>4, <2>1, Zenon DEF BlockKind
  <2> QED BY <2>1, <2>2
<1>5. CASE KindAt(k) \notin {"heading", "list"} \cup Fence /\ ~ TableAt(k)
  <2>1. KindAt(k) # "heading" /\ KindAt(k) \notin Fence /\ KindAt(k) # "list"
    BY <1>5
  <2>2. BlockKind(k) = "paragraph"
    BY <1>5, <2>1, Zenon DEF BlockKind
  <2> QED BY <2>1, <2>2
<1> QED BY <1>1, <1>2, <1>3, <1>4, <1>5

(* A block ends after its first line and not beyond the note: the loop      *)
(* advances.                                                               *)
LEMMA AfterAdvances ==
  ASSUME doc \in Documents, NEW k \in 1 .. Len(doc)
  PROVE  After(k) \in k + 1 .. Len(doc) + 1
<1>0. k \in Nat /\ Len(doc) \in Nat /\ k <= Len(doc) /\ k >= 1
  BY NoteTyped
<1>1. Later(k) = k + 1 .. Len(doc) /\ Later(k + 1) \subseteq k + 1 .. Len(doc)
  BY <1>0 DEF Later
<1>2. CASE BlockKind(k) = "heading"
  <2>1. After(k) = k + 1
    BY <1>2, Zenon DEF After
  <2> QED BY <1>0, <2>1
<1>3. CASE BlockKind(k) = "code"
  <2> DEFINE stops == {j \in Later(k) : KindAt(j) = KindAt(k)}
  <2>1. Before(stops) \in k + 1 .. Len(doc) + 1
    BY <1>1, BeforeStops
  <2>2. After(k) = Min({Before(stops) + 1, Len(doc) + 1})
    BY <1>3, Zenon DEF After
  <2> HIDE DEF stops
  <2>3. Min({Before(stops) + 1, Len(doc) + 1}) \in k + 1 .. Len(doc) + 1
    BY <1>0, <2>1, MinOfTwo
  <2> QED BY <2>2, <2>3
<1>4. CASE BlockKind(k) = "table"
  <2> DEFINE stops == {j \in Later(k + 1) : doc[j].bar = "none"}
  <2>1. Before(stops) \in k + 1 .. Len(doc) + 1
    BY <1>1, BeforeStops
  <2>2. After(k) = Before(stops)
    BY <1>4, Zenon DEF After
  <2> QED BY <2>1, <2>2
<1>5. CASE BlockKind(k) = "list"
  <2> DEFINE stops == {j \in Later(k) : KindAt(j) \notin {"list", "indented"}}
  <2>1. Before(stops) \in k + 1 .. Len(doc) + 1
    BY <1>1, BeforeStops
  <2>2. After(k) = Before(stops)
    BY <1>5, Zenon DEF After
  <2> QED BY <2>1, <2>2
<1>6. CASE BlockKind(k) = "paragraph"
  <2> DEFINE stops == {j \in Later(k) : KindAt(j) = "blank" \/ StartsSpecial(j)}
  <2>1. Before(stops) \in k + 1 .. Len(doc) + 1
    BY <1>1, BeforeStops
  <2>2. After(k) = Before(stops)
    BY <1>6, Zenon DEF After
  <2> QED BY <2>1, <2>2
<1> QED BY <1>0, <1>2, <1>3, <1>4, <1>5, <1>6, KindOfBlock

-----------------------------------------------------------------------------
(* The inductive invariant.                                                *)

(* The tokens are those of the note from first on, and there are some.      *)
Runs(tokens, first) ==
  /\ first \in Position
  /\ LastOf(tokens) \in Position
  /\ first <= LastOf(tokens)
  /\ tokens = Tokens(first, LastOf(tokens))

Typed == TypeOK /\ doc \in Documents

(* The blocks lie one after another and reach up to the line at work.       *)
EndBefore(b) == IF b = 1 THEN 0 ELSE blocks[b - 1].last

BlockInv ==
  /\ \A b \in 1 .. Len(blocks) :
       blocks[b].first = EndBefore(b) + 1 /\ blocks[b].first <= blocks[b].last
  /\ pc = "blocks" => Upto(doc, index - 1) = EndBefore(Len(blocks) + 1)
  /\ pc # "blocks" => Upto(doc, Len(doc)) = EndBefore(Len(blocks) + 1)
  /\ pc \in {"groups", "chunks"} => blocks # <<>>

(* So do the groups, up to the piece at work.                              *)
StartOf(g) == IF g = 1 THEN 1 ELSE LastOf(groups[g - 1].tokens) + 1

GroupFits(group) ==
  /\ group.parts > 0
  /\ Len(group.tokens) <= config.maximum
  /\ Len(group.tokens) > config.target => group.parts = 1

NextInv ==
  /\ next.block <= Len(blocks) + 1
  /\ next.block <= Len(blocks) =>
       /\ blocks[next.block].first <= next.token
       /\ next.token <= blocks[next.block].last
  /\ next.block = Len(blocks) + 1 => next.token = EndBefore(next.block) + 1
  /\ current.parts = 0 =>
       next = [block |-> 1, token |-> 1] /\ groups = <<>> /\ current.tokens = <<>>
  /\ current.parts > 0 =>
       /\ GroupFits(current)
       /\ Runs(current.tokens, StartOf(Len(groups) + 1))
       /\ next.token = LastOf(current.tokens) + 1

GroupInv ==
  /\ \A g \in 1 .. Len(groups) : GroupFits(groups[g]) /\ Runs(groups[g].tokens, StartOf(g))
  /\ pc = "blocks" => next = [block |-> 1, token |-> 1] /\ current = NoGroup /\ groups = <<>>
  /\ pc = "groups" => NextInv
  /\ pc \in {"chunks", "done"} => StartOf(Len(groups) + 1) = Upto(doc, Len(doc)) + 1

(* A chunk is its group after the tokens right before it.                  *)
OverlapFits(chunk, group, start) ==
  /\ chunk.body = group.tokens
  /\ Len(chunk.overlap) + Len(chunk.body) <= config.maximum
  /\ Len(chunk.overlap) < start
  /\ chunk.overlap = Tokens(start - Len(chunk.overlap), start - 1)

ChunkInv ==
  /\ pc \in {"blocks", "groups"} => chunks = <<>>
  /\ Len(chunks) <= Len(groups)
  /\ pc = "done" => Len(chunks) = Len(groups)
  /\ \A k \in 1 .. Len(chunks) : OverlapFits(chunks[k], groups[k], StartOf(k))
  /\ chunks = <<>> => previous = <<>>
  /\ chunks # <<>> => previous = Content(chunks[Len(chunks)])

(* A block that fits is not cut.                                           *)
Small(block) == block.last - block.first < config.maximum
Within(block, tokens) == tokens[1] <= block.first /\ block.last <= LastOf(tokens)
Grouped(block) == \E g \in 1 .. Len(groups) : Within(block, groups[g].tokens)

KeptInv ==
  /\ pc = "groups" => \A b \in 1 .. Len(blocks) : Small(blocks[b]) =>
       /\ b < next.block =>
            Grouped(blocks[b]) \/ (current.parts > 0 /\ Within(blocks[b], current.tokens))
       /\ b = next.block => next.token = blocks[b].first
  /\ pc = "chunks" => \A b \in 1 .. Len(blocks) : Small(blocks[b]) => Grouped(blocks[b])

Inv == Typed /\ BlockInv /\ GroupInv /\ ChunkInv /\ KeptInv

-----------------------------------------------------------------------------
LEMMA RunsTokens ==
  ASSUME NEW a \in Position, NEW b \in Nat, a <= b
  PROVE  /\ Runs(Tokens(a, b), a) /\ LastOf(Tokens(a, b)) = b
         /\ Tokens(a, b) # <<>>
<1>1. a \in Nat /\ a <= b + 1 /\ a >= 1 /\ b \in Position
  BY DEF Position
<1>2. /\ Len(Tokens(a, b)) = b - a + 1
      /\ \A k \in 1 .. b - a + 1 : Tokens(a, b)[k] = a + k - 1
  BY <1>1, TokensAre
<1>3. b - a + 1 \in 1 .. b - a + 1
  BY <1>1
<1>4. Tokens(a, b)[b - a + 1] = a + (b - a + 1) - 1
  BY <1>2, <1>3
<1>5. LastOf(Tokens(a, b)) = b
  BY <1>1, <1>2, <1>4 DEF LastOf
<1>6. Tokens(a, b) # <<>>
  BY <1>1, <1>2
<1> QED BY <1>1, <1>5, <1>6 DEF Runs

LEMMA RunsAre ==
  ASSUME NEW tokens, NEW first, Runs(tokens, first)
  PROVE  /\ tokens \in Seq(Position) /\ tokens # <<>>
         /\ first \in Nat /\ first >= 1 /\ LastOf(tokens) \in Nat
         /\ Len(tokens) = LastOf(tokens) - first + 1 /\ Len(tokens) \in Nat
         /\ tokens[1] = first
<1> DEFINE last == LastOf(tokens)
<1>1. first \in Position /\ last \in Nat /\ first \in Nat /\ first >= 1 /\ first <= last
        /\ first <= last + 1 /\ tokens = Tokens(first, last)
  BY DEF Runs, Position
<1> HIDE DEF last
<1>2. /\ tokens \in Seq(Position) /\ Len(tokens) = last - first + 1
      /\ \A k \in 1 .. last - first + 1 : tokens[k] = first + k - 1
  BY <1>1, TokensAre
<1>3. 1 \in 1 .. last - first + 1
  BY <1>1
<1>4. tokens[1] = first
  BY <1>1, <1>2, <1>3
<1>5. tokens # <<>> /\ Len(tokens) \in Nat
  BY <1>1, <1>2
<1> QED BY <1>1, <1>2, <1>4, <1>5 DEF last

LEMMA RunsJoin ==
  ASSUME NEW tokens, NEW first, Runs(tokens, first), NEW last \in Nat,
         LastOf(tokens) < last
  PROVE  /\ Runs(tokens \o Tokens(LastOf(tokens) + 1, last), first)
         /\ LastOf(tokens \o Tokens(LastOf(tokens) + 1, last)) = last
<1> DEFINE middle == LastOf(tokens)
<1>1. /\ first \in Position /\ middle \in Nat /\ first <= middle + 1 /\ middle <= last
      /\ first <= last /\ tokens = Tokens(first, middle)
  BY DEF Runs, Position
<1> HIDE DEF middle
<1>2. tokens \o Tokens(middle + 1, last) = Tokens(first, last)
  BY <1>1, TokensJoin
<1>3. Runs(Tokens(first, last), first) /\ LastOf(Tokens(first, last)) = last
  BY <1>1, RunsTokens
<1> QED BY <1>2, <1>3 DEF middle

LEMMA ConfigTyped ==
  ASSUME config \in Configs
  PROVE  /\ config.target \in Nat /\ config.maximum \in Nat /\ config.overlap \in Nat
         /\ 0 < config.target /\ config.target <= config.maximum
         /\ config.overlap < config.target
  BY ChunkerAssumption

LEMMA BlocksTyped ==
  ASSUME Typed
  PROVE  /\ Len(blocks) \in Nat /\ DOMAIN blocks = 1 .. Len(blocks)
         /\ \A b \in 1 .. Len(blocks) :
              /\ blocks[b] \in Block
              /\ blocks[b].first \in Nat /\ blocks[b].first >= 1 /\ blocks[b].last \in Nat
              /\ blocks[b].path \in Seq(Position)
              /\ blocks[b].from \in Nat /\ blocks[b].to \in Nat
<1>1. blocks \in Seq(Block)
  BY DEF Typed, TypeOK
<1>2. Len(blocks) \in Nat /\ DOMAIN blocks = 1 .. Len(blocks)
  BY <1>1, LenProperties
<1>3. \A b \in 1 .. Len(blocks) : blocks[b] \in Block
  BY <1>1, ElementOfSeq
<1> QED BY <1>2, <1>3 DEF Block, Position

LEMMA GroupsTyped ==
  ASSUME Typed
  PROVE  /\ Len(groups) \in Nat /\ DOMAIN groups = 1 .. Len(groups)
         /\ \A g \in 1 .. Len(groups) :
              /\ groups[g] \in Group /\ groups[g].tokens \in Seq(Position)
              /\ groups[g].path \in Seq(Position)
              /\ groups[g].from \in Nat /\ groups[g].to \in Nat /\ groups[g].parts \in Nat
         /\ current.tokens \in Seq(Position) /\ current.parts \in Nat
         /\ Len(current.tokens) \in Nat
<1>1. groups \in Seq(Group) /\ current \in Group
  BY DEF Typed, TypeOK
<1>2. Len(groups) \in Nat /\ DOMAIN groups = 1 .. Len(groups)
  BY <1>1, LenProperties
<1>3. \A g \in 1 .. Len(groups) : groups[g] \in Group
  BY <1>1, ElementOfSeq
<1>4. current.tokens \in Seq(Position) /\ current.parts \in Nat
  BY <1>1 DEF Group
<1>5. Len(current.tokens) \in Nat
  BY <1>4, LenProperties
<1> QED BY <1>2, <1>3, <1>4, <1>5 DEF Group

LEMMA ChunksTyped ==
  ASSUME Typed
  PROVE  /\ Len(chunks) \in Nat /\ DOMAIN chunks = 1 .. Len(chunks)
         /\ \A k \in 1 .. Len(chunks) :
              /\ chunks[k].overlap \in Seq(Position) /\ chunks[k].body \in Seq(Position)
              /\ Len(chunks[k].overlap) \in Nat /\ Len(chunks[k].body) \in Nat
<1>1. chunks \in Seq(Chunk)
  BY DEF Typed, TypeOK
<1>2. Len(chunks) \in Nat /\ DOMAIN chunks = 1 .. Len(chunks)
  BY <1>1, LenProperties
<1>3. ASSUME NEW k \in 1 .. Len(chunks)
      PROVE  /\ chunks[k].overlap \in Seq(Position) /\ chunks[k].body \in Seq(Position)
             /\ Len(chunks[k].overlap) \in Nat /\ Len(chunks[k].body) \in Nat
  <2>1. chunks[k] \in Chunk
    BY <1>1, ElementOfSeq
  <2>2. chunks[k].overlap \in Seq(Position) /\ chunks[k].body \in Seq(Position)
    BY <2>1 DEF Chunk
  <2> QED BY <2>2, LenProperties
<1> QED BY <1>2, <1>3

-----------------------------------------------------------------------------
(* The initial states.                                                     *)

LEMMA InitInv == Init => Inv
<1> SUFFICES ASSUME Init PROVE Inv
  OBVIOUS
<1>0. doc \in Documents /\ config \in Configs /\ pc = "blocks" /\ index = 1
        /\ headings = <<>> /\ blocks = <<>> /\ next = [block |-> 1, token |-> 1]
        /\ current = NoGroup /\ groups = <<>> /\ chunks = <<>> /\ previous = <<>>
  BY DEF Init
<1>1. Typed
  <2>1. doc \in Seq(Line) /\ index \in 1 .. Len(doc) + 1
    BY <1>0, NoteTyped
  <2>2. NoGroup \in Group
    BY EmptySeq DEF NoGroup, Group
  <2>3. next \in [block : Position, token : Position]
    BY <1>0 DEF Position
  <2> QED BY <1>0, <2>1, <2>2, <2>3, EmptySeq DEF Typed, TypeOK
<1>2. Len(blocks) = 0 /\ Len(groups) = 0 /\ Len(chunks) = 0
  BY <1>0
<1>3. BlockInv
  <2>1. Upto(doc, index - 1) = 0
    BY <1>0 DEF Upto
  <2> QED BY <1>0, <1>2, <2>1 DEF BlockInv, EndBefore
<1>4. GroupInv /\ ChunkInv /\ KeptInv
  BY <1>0, <1>2 DEF GroupInv, ChunkInv, KeptInv
<1> QED BY <1>1, <1>3, <1>4 DEF Inv

-----------------------------------------------------------------------------
(* The blocks.                                                             *)

LEMMA SkipBlankInv == ASSUME Inv, SkipBlank PROVE Inv'
<1>0. /\ pc = "blocks" /\ pc' = pc /\ index <= Len(doc) /\ KindAt(index) = "blank"
      /\ index' = index + 1
      /\ UNCHANGED <<inputVars, headings, blocks, groupVars, chunkVars>>
  BY DEF SkipBlank
<1>1. index \in 1 .. Len(doc) /\ index' \in 1 .. Len(doc) + 1 /\ index' - 1 = index
  BY <1>0, NoteTyped DEF Inv, Typed, TypeOK
<1>2. Typed'
  BY <1>0, <1>1 DEF Inv, Typed, TypeOK, inputVars, groupVars, chunkVars
<1>3. BlockInv'
  <2>1. Upto(doc, index) = Upto(doc, index - 1)
    BY <1>0, <1>1, UptoSteps DEF Inv, Typed
  <2>2. doc' = doc /\ blocks' = blocks
    BY <1>0 DEF inputVars
  <2>3. Upto(doc', index' - 1) = Upto(doc, index - 1)
    BY <1>1, <2>1, <2>2
  <2> QED BY <1>0, <2>2, <2>3 DEF Inv, BlockInv, EndBefore
<1>4. GroupInv' /\ ChunkInv' /\ KeptInv'
  BY <1>0 DEF Inv, GroupInv, ChunkInv, KeptInv, groupVars, chunkVars, inputVars, GroupFits,
              StartOf, OverlapFits, Content
<1> QED BY <1>2, <1>3, <1>4 DEF Inv

(* The new block follows the last one and has a token: its first line is    *)
(* not blank.                                                              *)
LEMMA NewBlock ==
  ASSUME Inv, pc = "blocks", index <= Len(doc), KindAt(index) # "blank"
  PROVE  /\ Path(index) \in Seq(Position)
         /\ After(index) \in index + 1 .. Len(doc) + 1
         /\ Upto(doc, index - 1) \in Nat
         /\ Upto(doc, After(index) - 1) \in Nat
         /\ Upto(doc, index - 1) < Upto(doc, After(index) - 1)
<1>0. index \in 1 .. Len(doc) /\ doc \in Documents /\ headings \in Seq(Position)
        /\ Len(doc) \in Nat
  BY NoteTyped DEF Inv, Typed, TypeOK
<1>1. After(index) \in index + 1 .. Len(doc) + 1
  BY <1>0, AfterAdvances
<1>2. Upto(doc, index - 1) < Upto(doc, index) /\ Upto(doc, index - 1) \in Nat
        /\ Upto(doc, index) \in Nat
  BY <1>0, UptoSteps
<1>3. index \in 0 .. Len(doc) /\ After(index) - 1 \in index .. Len(doc)
  BY <1>0, <1>1
<1>4. Upto(doc, index) <= Upto(doc, After(index) - 1) /\ Upto(doc, After(index) - 1) \in Nat
  BY <1>0, <1>3, UptoGrows
<1>5. Path(index) \in Seq(Position)
  <2>1. CASE KindAt(index) # "heading"
    BY <1>0, <2>1 DEF Path
  <2>2. CASE KindAt(index) = "heading"
    <3>1. doc[index].level \in 0 .. 6 /\ doc[index].level # 0
      BY <1>0, <2>2, NoteTyped, ChunkerAssumption DEF KindAt
    <3>2. doc[index].level - 1 \in Nat /\ Len(headings) \in Nat
            /\ headings \in [1 .. Len(headings) -> Position]
      BY <1>0, <3>1, LenProperties
    <3> DEFINE kept == Min({doc[index].level - 1, Len(headings)})
    <3>3. kept \in Nat /\ kept <= Len(headings)
      BY <3>2, MinOfTwo
    <3> HIDE DEF kept
    <3>4. \A i \in 1 .. kept : headings[i] \in Position
      BY <3>2, <3>3
    <3>5. SubSeq(headings, 1, kept) \in Seq(Position)
      BY <3>3, <3>4, SubSeqProperties
    <3>6. index \in Position
      BY <1>0 DEF Position
    <3>7. Append(SubSeq(headings, 1, kept), index) \in Seq(Position)
      BY <3>5, <3>6, AppendProperties
    <3> QED BY <2>2, <3>7 DEF Path, kept
  <2> QED BY <2>1, <2>2
<1> QED BY <1>1, <1>2, <1>4, <1>5

LEMMA ParseBlockInv == ASSUME Inv, ParseBlock PROVE Inv'
<1> DEFINE block == [kind |-> BlockKind(index), path |-> Path(index), from |-> index,
                     to |-> After(index) - 1, first |-> Upto(doc, index - 1) + 1,
                     last |-> Upto(doc, After(index) - 1)]
<1>0. /\ pc = "blocks" /\ pc' = pc /\ index <= Len(doc) /\ KindAt(index) # "blank"
      /\ headings' = Path(index) /\ blocks' = Append(blocks, block)
      /\ index' = After(index) /\ UNCHANGED <<inputVars, groupVars, chunkVars>>
  BY DEF ParseBlock
<1>1. /\ Path(index) \in Seq(Position) /\ After(index) \in index + 1 .. Len(doc) + 1
      /\ Upto(doc, index - 1) \in Nat /\ Upto(doc, After(index) - 1) \in Nat
      /\ Upto(doc, index - 1) < Upto(doc, After(index) - 1)
  BY <1>0, NewBlock
<1>2. index \in 1 .. Len(doc) /\ Len(doc) \in Nat /\ blocks \in Seq(Block)
  BY <1>0, NoteTyped DEF Inv, Typed, TypeOK
<1>3. block \in Block
  <2>1. BlockKind(index) \in {"heading", "code", "table", "list", "paragraph"}
    BY <1>2, KindOfBlock
  <2>2. index \in Position /\ After(index) - 1 \in Position
          /\ Upto(doc, index - 1) + 1 \in Position /\ Upto(doc, After(index) - 1) \in Position
    BY <1>1, <1>2 DEF Position
  <2> QED BY <1>1, <2>1, <2>2 DEF Block
<1>4. /\ blocks' \in Seq(Block) /\ Len(blocks') = Len(blocks) + 1 /\ blocks' # <<>>
      /\ \A b \in 1 .. Len(blocks) : blocks'[b] = blocks[b]
      /\ blocks'[Len(blocks) + 1] = block
  <2> HIDE DEF block
  <2> QED BY <1>0, <1>2, <1>3, AppendProperties
<1>5. Typed'
  <2>1. index' \in 1 .. Len(doc) + 1
    BY <1>0, <1>1, <1>2
  <2> QED BY <1>0, <1>1, <1>4, <2>1 DEF Inv, Typed, TypeOK, inputVars, groupVars, chunkVars
<1>6. Len(blocks) \in Nat
  BY BlocksTyped DEF Inv
<1>7. BlockInv'
  <2>1. block.first = Upto(doc, index - 1) + 1 /\ block.last = Upto(doc, After(index) - 1)
    OBVIOUS
  <2> HIDE DEF block
  <2>2. Upto(doc, index - 1) = EndBefore(Len(blocks) + 1)
    BY <1>0 DEF Inv, BlockInv
  <2>3. \A b \in 1 .. Len(blocks) + 1 : EndBefore(b)' = EndBefore(b)
    BY <1>4, <1>6 DEF EndBefore
  <2>4. EndBefore(Len(blocks) + 1)' = block.last
    <3>1. Len(blocks') + 1 # 1 /\ Len(blocks') + 1 - 1 = Len(blocks) + 1
      BY <1>4, <1>6
    <3> QED BY <1>4, <3>1 DEF EndBefore
  <2>5. ASSUME NEW b \in 1 .. Len(blocks) + 1
        PROVE  blocks'[b].first = EndBefore(b)' + 1 /\ blocks'[b].first <= blocks'[b].last
    <3>1. CASE b \in 1 .. Len(blocks)
      BY <1>4, <2>3, <3>1 DEF Inv, BlockInv
    <3>2. CASE b = Len(blocks) + 1
      BY <1>1, <1>4, <2>1, <2>2, <2>3, <3>2
    <3> QED BY <1>6, <3>1, <3>2
  <2>6. Upto(doc, index - 1)' = EndBefore(Len(blocks) + 1)'
    <3>1. doc' = doc /\ index' = After(index)
      BY <1>0 DEF inputVars
    <3>2. Upto(doc, index - 1)' = Upto(doc, After(index) - 1)
      BY <3>1 DEF Upto
    <3> QED BY <2>1, <2>4, <3>2
  <2> QED BY <1>0, <1>4, <2>5, <2>6 DEF BlockInv
<1>8. GroupInv' /\ ChunkInv' /\ KeptInv'
  BY <1>0 DEF Inv, GroupInv, ChunkInv, KeptInv, groupVars, chunkVars, inputVars, GroupFits,
              StartOf, OverlapFits, Content
<1> QED BY <1>5, <1>7, <1>8 DEF Inv

LEMMA EndBlocksInv == ASSUME Inv, EndBlocks PROVE Inv'
<1>0. /\ pc = "blocks" /\ index > Len(doc) /\ pc' = IF blocks = <<>> THEN "done" ELSE "groups"
      /\ UNCHANGED <<inputVars, parseVars, groupVars, chunkVars>>
  BY DEF EndBlocks
<1>1. /\ doc' = doc /\ config' = config /\ blocks' = blocks /\ next' = next
      /\ current' = current /\ groups' = groups /\ chunks' = chunks /\ previous' = previous
      /\ index' = index /\ headings' = headings
  BY <1>0 DEF inputVars, parseVars, groupVars, chunkVars
<1>2. Typed'
  BY <1>0, <1>1 DEF Inv, Typed, TypeOK
<1>3. index - 1 = Len(doc) /\ Len(doc) \in Nat
  BY <1>0, NoteTyped DEF Inv, Typed, TypeOK
<1>4. Upto(doc, Len(doc)) = EndBefore(Len(blocks) + 1)
  BY <1>0, <1>3 DEF Inv, BlockInv
<1>5. BlockInv'
  BY <1>0, <1>1, <1>4 DEF Inv, BlockInv, EndBefore
<1>6. /\ next = [block |-> 1, token |-> 1] /\ current = NoGroup /\ groups = <<>>
      /\ chunks = <<>> /\ previous = <<>> /\ Len(groups) = 0 /\ Len(chunks) = 0
  BY <1>0 DEF Inv, GroupInv, ChunkInv
<1>7. /\ Len(blocks) \in Nat /\ blocks # <<>> => Len(blocks) >= 1
  BY EmptySeq, BlocksTyped DEF Inv, Typed, TypeOK
<1>8. GroupInv'
  <2>1. CASE blocks = <<>>
    <3>1. Upto(doc, Len(doc)) = 0 /\ StartOf(Len(groups) + 1) = 1
      BY <1>4, <1>6, <2>1 DEF EndBefore, StartOf
    <3> QED BY <1>0, <1>1, <1>6, <2>1, <3>1 DEF GroupInv, StartOf
  <2>2. CASE blocks # <<>>
    <3>1. 1 \in 1 .. Len(blocks)
      BY <1>7, <2>2
    <3>2. blocks[1].first = 1 /\ blocks[1].first <= blocks[1].last
      BY <3>1 DEF Inv, BlockInv, EndBefore
    <3>3. NextInv
      BY <1>6, <1>7, <2>2, <3>2 DEF NextInv, NoGroup
    <3>4. NextInv'
      BY <1>1, <3>3 DEF NextInv, GroupFits, StartOf, EndBefore
    <3> QED BY <1>0, <1>1, <1>6, <2>2, <3>4 DEF GroupInv
  <2> QED BY <2>1, <2>2
<1>9. ChunkInv'
  BY <1>0, <1>1, <1>6 DEF ChunkInv
<1>10. KeptInv'
  <2>1. \A b \in 1 .. Len(blocks) : b = 1 => blocks[b].first = 1
    BY DEF Inv, BlockInv, EndBefore
  <2>2. \A b \in 1 .. Len(blocks) : ~ (b < next.block)
    BY <1>6, <1>7
  <2>3. next.block = 1 /\ next.token = 1
    BY <1>6
  <2> QED BY <1>0, <1>1, <2>1, <2>2, <2>3 DEF KeptInv, Small
<1> QED BY <1>2, <1>5, <1>8, <1>9, <1>10 DEF Inv

-----------------------------------------------------------------------------
(* The groups.                                                             *)

Last == LastOfPiece(next.token, blocks[next.block].last)

LEMMA PieceIs ==
  ASSUME Inv, pc = "groups", next.block <= Len(blocks)
  PROVE  /\ next.block \in 1 .. Len(blocks) /\ next.token \in Position /\ next.token \in Nat
         /\ blocks[next.block].last \in Nat
         /\ Last \in Nat /\ next.token <= Last /\ Last <= blocks[next.block].last
         /\ Piece \in Seq(Position) /\ Runs(Piece, next.token) /\ LastOf(Piece) = Last
         /\ Piece = Tokens(next.token, Last)
         /\ Len(Piece) = Last - next.token + 1 /\ Len(Piece) <= config.maximum
         /\ Last # blocks[next.block].last => Last = next.token + config.maximum - 1
<1> DEFINE t == next.token
           l == Last
           last == blocks[next.block].last
<1>1. next.block \in 1 .. Len(blocks) /\ t \in Position /\ t \in Nat /\ t >= 1
  BY BlocksTyped DEF Inv, Typed, TypeOK, Position
<1>2. last \in Nat /\ t <= last
  BY <1>1, BlocksTyped DEF Inv, GroupInv, NextInv
<1>3. config.maximum \in Nat /\ config.maximum >= 1
  BY ConfigTyped DEF Inv, Typed, TypeOK
<1>4. l = IF t + config.maximum - 1 <= last THEN t + config.maximum - 1 ELSE last
  <2>1. t + config.maximum - 1 \in Nat
    BY <1>1, <1>3
  <2> QED BY <1>2, <2>1, MinOfTwo DEF Last, LastOfPiece
<1>5. Piece = Tokens(t, l)
  BY DEF Piece, Last
<1> HIDE DEF t, l, last
<1>6. l \in Nat /\ t <= l /\ l <= last /\ (l # last => l = t + config.maximum - 1)
        /\ l - t + 1 <= config.maximum
  BY <1>1, <1>2, <1>3, <1>4
<1>7. Runs(Piece, t) /\ LastOf(Piece) = l
  BY <1>1, <1>5, <1>6, RunsTokens
<1>8. Piece \in Seq(Position) /\ Len(Piece) = l - t + 1
  BY <1>7, RunsAre
<1> QED BY <1>1, <1>2, <1>5, <1>6, <1>7, <1>8 DEF t, l, last

LEMMA GroupTyped ==
  ASSUME NEW block \in Block, NEW piece \in Seq(Position), NEW group \in Group
  PROVE  /\ NewGroup(block, piece) \in Group
         /\ NewGroup(block, piece).tokens = piece /\ NewGroup(block, piece).parts = 1
         /\ Extended(group, block, piece) \in Group
         /\ Extended(group, block, piece).tokens = group.tokens \o piece
         /\ Extended(group, block, piece).parts = group.parts + 1
<1>1. NewGroup(block, piece) \in Group
  BY DEF NewGroup, Group, Block, Position
<1>2. group.tokens \o piece \in Seq(Position)
  BY ConcatProperties DEF Group
<1>3. block.to \in Nat /\ group.parts + 1 \in Nat
  BY DEF Block, Group, Position
<1> QED BY <1>1, <1>2, <1>3 DEF NewGroup, Extended, Group

(* Wherever the piece goes, the group at work is a run that ends with it.   *)
Placed ==
  /\ current' \in Group /\ groups' \in Seq(Group)
  /\ current'.parts > 0 /\ GroupFits(current)'
  /\ Runs(current'.tokens, StartOf(Len(groups) + 1)') /\ LastOf(current'.tokens) = Last
  /\ current'.tokens[1] <= next.token
  /\ \A g \in 1 .. Len(groups') : GroupFits(groups[g])' /\ Runs(groups'[g].tokens, StartOf(g)')
  /\ \A b \in 1 .. Len(blocks) :
       Grouped(blocks[b]) \/ (current.parts > 0 /\ Within(blocks[b], current.tokens)) =>
         Grouped(blocks[b])' \/ Within(blocks[b], current'.tokens)

LEMMA ClosePlaces ==
  ASSUME Inv, pc = "groups", next.block <= Len(blocks), Closes(blocks[next.block], Piece),
         groups' = Append(groups, current), current' = NewGroup(blocks[next.block], Piece),
         blocks' = blocks, config' = config
  PROVE  Placed
<1>1. /\ next.block \in 1 .. Len(blocks) /\ next.token \in Position /\ next.token \in Nat
      /\ Piece \in Seq(Position) /\ Runs(Piece, next.token) /\ LastOf(Piece) = Last
      /\ Len(Piece) <= config.maximum /\ Len(Piece) \in Nat
  BY PieceIs, RunsAre
<1>2. current.parts \in Nat /\ Len(groups) \in Nat /\ groups \in Seq(Group) /\ current \in Group
        /\ config.maximum \in Nat
  BY GroupsTyped, ConfigTyped DEF Inv, Typed, TypeOK
<1>3. current.parts > 0
  <2>1. ASSUME current.parts = 0 PROVE FALSE
    <3>1. Len(current.tokens) = 0
      BY <2>1 DEF Inv, GroupInv, NextInv
    <3> QED BY <1>1, <1>2, <2>1, <3>1 DEF Closes
  <2> QED BY <1>2, <2>1
<1>4. /\ GroupFits(current) /\ Runs(current.tokens, StartOf(Len(groups) + 1))
      /\ next.token = LastOf(current.tokens) + 1
  BY <1>3 DEF Inv, GroupInv, NextInv
<1>5. /\ groups' \in Seq(Group) /\ Len(groups') = Len(groups) + 1
      /\ \A g \in 1 .. Len(groups) : groups'[g] = groups[g]
      /\ groups'[Len(groups) + 1] = current
  BY <1>2, AppendProperties
<1>6. current' \in Group /\ current'.tokens = Piece /\ current'.parts = 1
  <2>1. blocks[next.block] \in Block
    BY <1>1, BlocksTyped DEF Inv
  <2> QED BY <1>1, <1>2, <2>1, GroupTyped
<1>7. \A g \in 1 .. Len(groups) + 1 : StartOf(g)' = StartOf(g)
  BY <1>2, <1>5 DEF StartOf
<1>8. StartOf(Len(groups) + 1)' = next.token
  <2>1. Len(groups') + 1 # 1 /\ Len(groups') + 1 - 1 = Len(groups) + 1
    BY <1>2, <1>5
  <2> QED BY <1>4, <1>5, <2>1 DEF StartOf
<1>9. GroupFits(current)'
  BY <1>1, <1>6 DEF GroupFits
<1>10. ASSUME NEW g \in 1 .. Len(groups')
       PROVE  GroupFits(groups[g])' /\ Runs(groups'[g].tokens, StartOf(g)')
  <2>1. CASE g \in 1 .. Len(groups)
    <3>1. GroupFits(groups[g]) /\ Runs(groups[g].tokens, StartOf(g))
      BY <2>1 DEF Inv, GroupInv
    <3>2. groups'[g] = groups[g] /\ StartOf(g)' = StartOf(g)
      BY <1>2, <1>5, <1>7, <2>1
    <3> QED BY <3>1, <3>2 DEF GroupFits
  <2>2. CASE g = Len(groups) + 1
    <3>1. groups'[g] = current /\ StartOf(g)' = StartOf(g)
      BY <1>2, <1>5, <1>7, <2>2
    <3> QED BY <1>4, <2>2, <3>1 DEF GroupFits
  <2> QED BY <1>2, <1>5, <2>1, <2>2
<1>11. ASSUME NEW b \in 1 .. Len(blocks),
              Grouped(blocks[b]) \/ (current.parts > 0 /\ Within(blocks[b], current.tokens))
       PROVE  Grouped(blocks[b])'
  <2>1. CASE Grouped(blocks[b])
    <3>1. PICK g \in 1 .. Len(groups) : Within(blocks[b], groups[g].tokens)
      BY <2>1 DEF Grouped
    <3>2. g \in 1 .. Len(groups') /\ groups'[g] = groups[g]
      BY <1>2, <1>5
    <3> QED BY <3>1, <3>2 DEF Grouped, Within
  <2>2. CASE Within(blocks[b], current.tokens)
    <3>1. Len(groups) + 1 \in 1 .. Len(groups')
      BY <1>2, <1>5
    <3> QED BY <1>5, <2>2, <3>1 DEF Grouped, Within
  <2> QED BY <1>11, <2>1, <2>2
<1>12. Piece[1] <= next.token
  BY <1>1, RunsAre
<1> QED BY <1>1, <1>5, <1>6, <1>8, <1>9, <1>10, <1>11, <1>12 DEF Placed

LEMMA NewGroupPlaces ==
  ASSUME Inv, pc = "groups", next.block <= Len(blocks), current.parts = 0,
         groups' = groups, current' = NewGroup(blocks[next.block], Piece),
         blocks' = blocks, config' = config
  PROVE  Placed
<1>1. /\ next.block \in 1 .. Len(blocks) /\ next.token \in Position /\ next.token \in Nat
      /\ Piece \in Seq(Position) /\ Runs(Piece, next.token) /\ LastOf(Piece) = Last
      /\ Len(Piece) <= config.maximum /\ Len(Piece) \in Nat /\ Piece[1] <= next.token
  BY PieceIs, RunsAre
<1>2. groups = <<>> /\ next.token = 1 /\ groups \in Seq(Group) /\ current \in Group
        /\ Len(groups) = 0
  BY DEF Inv, Typed, TypeOK, GroupInv, NextInv
<1>3. current' \in Group /\ current'.tokens = Piece /\ current'.parts = 1
  <2>1. blocks[next.block] \in Block
    BY <1>1, BlocksTyped DEF Inv
  <2> QED BY <1>1, <1>2, <2>1, GroupTyped
<1>4. StartOf(Len(groups) + 1)' = next.token
  BY <1>2 DEF StartOf
<1>5. GroupFits(current)'
  BY <1>1, <1>3 DEF GroupFits
<1>6. \A b \in 1 .. Len(blocks) : ~ Grouped(blocks[b])
  BY <1>2 DEF Grouped
<1>7. \A g \in 1 .. Len(groups') : FALSE
  BY <1>2
<1> QED BY <1>1, <1>2, <1>3, <1>4, <1>5, <1>6, <1>7 DEF Placed

LEMMA ExtendPlaces ==
  ASSUME Inv, pc = "groups", next.block <= Len(blocks), current.parts # 0,
         ~ Closes(blocks[next.block], Piece),
         groups' = groups, current' = Extended(current, blocks[next.block], Piece),
         blocks' = blocks, config' = config
  PROVE  Placed
<1> DEFINE middle == LastOf(current.tokens)
<1>1. /\ next.block \in 1 .. Len(blocks) /\ next.token \in Nat
      /\ Piece \in Seq(Position)
      /\ Last \in Nat /\ next.token <= Last /\ Len(Piece) \in Nat
  BY PieceIs, RunsAre
<1>2. current.parts \in Nat /\ Len(groups) \in Nat /\ groups \in Seq(Group) /\ current \in Group
        /\ current.tokens \in Seq(Position) /\ Len(current.tokens) \in Nat
        /\ config.maximum \in Nat /\ config.target \in Nat
        /\ config.target <= config.maximum
  BY GroupsTyped, ConfigTyped DEF Inv, Typed, TypeOK
<1>3. /\ Runs(current.tokens, StartOf(Len(groups) + 1)) /\ next.token = middle + 1
      /\ current.parts > 0
  BY <1>2 DEF Inv, GroupInv, NextInv
<1>4. current' \in Group /\ current'.tokens = current.tokens \o Piece
        /\ current'.parts = current.parts + 1
  <2>1. blocks[next.block] \in Block
    BY <1>1, BlocksTyped DEF Inv
  <2> QED BY <1>1, <1>2, <2>1, GroupTyped
<1>5. middle \in Nat /\ middle < Last /\ StartOf(Len(groups) + 1) \in Nat
        /\ current.tokens[1] = StartOf(Len(groups) + 1) /\ StartOf(Len(groups) + 1) <= middle
  BY <1>1, <1>3, RunsAre DEF Runs
<1>6. /\ Runs(current'.tokens, StartOf(Len(groups) + 1)) /\ LastOf(current'.tokens) = Last
  <2>1. Piece = Tokens(middle + 1, Last)
    BY <1>3, PieceIs
  <2>2. /\ Runs(current.tokens \o Tokens(middle + 1, Last), StartOf(Len(groups) + 1))
        /\ LastOf(current.tokens \o Tokens(middle + 1, Last)) = Last
    BY <1>1, <1>3, <1>5, RunsJoin
  <2> QED BY <1>4, <2>1, <2>2, Zenon
<1>7. current'.tokens[1] = StartOf(Len(groups) + 1)
  BY <1>6, RunsAre
<1>8. GroupFits(current)'
  <2>1. Len(current'.tokens) = Len(current.tokens) + Len(Piece)
    BY <1>1, <1>2, <1>4, ConcatProperties
  <2>2. Len(current.tokens) + Len(Piece) <= config.target
    BY <1>1, <1>2, <1>3 DEF Closes
  <2>3. current'.parts > 0 /\ config'.maximum = config.maximum /\ config'.target = config.target
    BY <1>2, <1>3, <1>4
  <2>4. /\ Len(current'.tokens) <= config.maximum
        /\ ~ (Len(current'.tokens) > config.target)
    BY <1>1, <1>2, <2>1, <2>2
  <2> QED BY <2>3, <2>4 DEF GroupFits
<1>9. \A g \in 1 .. Len(groups) + 1 : StartOf(g)' = StartOf(g)
  BY DEF StartOf
<1>9a. StartOf(Len(groups) + 1)' = StartOf(Len(groups) + 1)
  BY DEF StartOf
<1>10. ASSUME NEW g \in 1 .. Len(groups')
       PROVE  GroupFits(groups[g])' /\ Runs(groups'[g].tokens, StartOf(g)')
  <2>1. GroupFits(groups[g]) /\ Runs(groups[g].tokens, StartOf(g))
    BY DEF Inv, GroupInv
  <2> QED BY <1>9, <2>1 DEF GroupFits, StartOf
<1>11. ASSUME NEW b \in 1 .. Len(blocks),
              Grouped(blocks[b]) \/ (current.parts > 0 /\ Within(blocks[b], current.tokens))
       PROVE  Grouped(blocks[b])' \/ Within(blocks[b], current'.tokens)
  <2>1. CASE Grouped(blocks[b])
    BY <2>1 DEF Grouped, Within
  <2>2. CASE Within(blocks[b], current.tokens)
    <3>1. blocks[b].last \in Nat
      BY BlocksTyped DEF Inv
    <3>2. current.tokens[1] <= blocks[b].first /\ blocks[b].last <= middle
      BY <2>2 DEF Within
    <3>3. blocks[b].last <= Last
      BY <1>1, <1>5, <3>1, <3>2
    <3>4. current'.tokens[1] <= blocks[b].first /\ blocks[b].last <= LastOf(current'.tokens)
      BY <1>5, <1>6, <1>7, <3>2, <3>3
    <3>5. Within(blocks[b], current'.tokens)
      BY <3>4, Zenon DEF Within
    <3> QED BY <3>5, Zenon
  <2> QED BY <1>11, <2>1, <2>2
<1>12. current'.tokens[1] <= next.token
  BY <1>3, <1>5, <1>7
<1>13. current' \in Group /\ groups' \in Seq(Group) /\ current'.parts > 0
  BY <1>2, <1>4
<1>14. Runs(current'.tokens, StartOf(Len(groups) + 1)') /\ LastOf(current'.tokens) = Last
  BY <1>6, <1>9a
<1> QED BY <1>8, <1>10, <1>11, <1>12, <1>13, <1>14, Zenon DEF Placed

LEMMA AddPieceInv == ASSUME Inv, AddPiece PROVE Inv'
<1> DEFINE block == blocks[next.block]
<1>0. /\ pc = "groups" /\ next.block <= Len(blocks) /\ pc' = pc
      /\ \/ /\ Closes(block, Piece)
            /\ groups' = Append(groups, current) /\ current' = NewGroup(block, Piece)
         \/ /\ ~ Closes(block, Piece) /\ groups' = groups
            /\ current' = IF current.parts = 0 THEN NewGroup(block, Piece)
                          ELSE Extended(current, block, Piece)
      /\ next' = IF next.token + Len(Piece) <= block.last
                 THEN [next EXCEPT !.token = @ + Len(Piece)]
                 ELSE [block |-> next.block + 1, token |-> block.last + 1]
      /\ UNCHANGED <<inputVars, parseVars, chunkVars>>
  BY DEF AddPiece
<1>1. /\ doc' = doc /\ config' = config /\ blocks' = blocks /\ index' = index
      /\ headings' = headings /\ chunks' = chunks /\ previous' = previous
  BY <1>0 DEF inputVars, parseVars, chunkVars
<1>2. Placed
  <2>1. CASE Closes(block, Piece)
    BY <1>0, <1>1, <2>1, ClosePlaces
  <2>2. CASE ~ Closes(block, Piece) /\ current.parts = 0
    BY <1>0, <1>1, <2>2, NewGroupPlaces
  <2>3. CASE ~ Closes(block, Piece) /\ current.parts # 0
    BY <1>0, <1>1, <2>3, ExtendPlaces
  <2> QED BY <2>1, <2>2, <2>3
<1>3. /\ next.block \in 1 .. Len(blocks) /\ next.block \in Nat /\ next.token \in Nat
      /\ next.token >= 1 /\ block.last \in Nat /\ block.first \in Nat
      /\ Last \in Nat /\ next.token <= Last /\ Last <= block.last
      /\ Len(Piece) = Last - next.token + 1 /\ Len(blocks) \in Nat
      /\ config.maximum \in Nat
      /\ Last # block.last => Last = next.token + config.maximum - 1
      /\ block.first <= next.token
  <2>1. next.block <= Len(blocks) /\ next.token >= 1 /\ block.first <= next.token
    BY <1>0 DEF Inv, Typed, TypeOK, Position, GroupInv, NextInv
  <2>2. config.maximum \in Nat
    BY ConfigTyped DEF Inv, Typed, TypeOK
  <2> QED BY <1>0, <2>1, <2>2, PieceIs, BlocksTyped DEF Inv
<1>4. next \in [block : Position, token : Position]
  BY DEF Inv, Typed, TypeOK
<1> DEFINE more == next'.block = next.block /\ next'.token = Last + 1 /\ Last < block.last
           done == next'.block = next.block + 1 /\ next'.token = Last + 1 /\ Last = block.last
<1>5. next' \in [block : Position, token : Position] /\ (more \/ done)
  <2>1. next.token + Len(Piece) = Last + 1
    BY <1>3
  <2>2. CASE Last < block.last
    <3>1. next.token + Len(Piece) <= block.last
      BY <1>3, <2>1, <2>2
    <3>2. next' = [next EXCEPT !.token = @ + Len(Piece)]
      BY <1>0, <3>1
    <3>3. Last + 1 \in Position
      BY <1>3 DEF Position
    <3>4. next'.token = Last + 1 /\ next'.block = next.block
            /\ next' \in [block : Position, token : Position]
      BY <1>4, <2>1, <3>2, <3>3
    <3> QED BY <2>2, <3>4
  <2>3. CASE Last = block.last
    <3>1. next' = [block |-> next.block + 1, token |-> Last + 1]
      BY <1>0, <1>3, <2>1, <2>3
    <3>2. Last + 1 \in Position /\ next.block + 1 \in Position
      BY <1>3 DEF Position
    <3> QED BY <2>3, <3>1, <3>2
  <2> QED BY <1>3, <2>2, <2>3
<1>6. Typed'
  BY <1>0, <1>1, <1>2, <1>5 DEF Inv, Typed, TypeOK, Placed
<1>7. BlockInv'
  BY <1>0, <1>1 DEF Inv, BlockInv, EndBefore
<1>8. /\ \A b \in 1 .. Len(blocks) : blocks[b].first = EndBefore(b) + 1 /\ blocks[b].first <= blocks[b].last
      /\ \A b \in 1 .. Len(blocks) + 1 : EndBefore(b)' = EndBefore(b)
      /\ EndBefore(next.block + 1) = block.last
  BY <1>1, <1>3 DEF Inv, BlockInv, EndBefore
<1>9. NextInv'
  <2>1. next'.block <= Len(blocks) + 1
    BY <1>3, <1>5
  <2>2. next'.block <= Len(blocks) =>
          blocks[next'.block].first <= next'.token /\ next'.token <= blocks[next'.block].last
    <3>1. CASE more
      <4>1. block.first <= Last + 1 /\ Last + 1 <= block.last
        BY <1>3, <3>1
      <4>2. blocks[next'.block] = block /\ next'.token = Last + 1
        BY <3>1
      <4> QED BY <4>1, <4>2
    <3>2. CASE done /\ next'.block <= Len(blocks)
      <4>1. next.block + 1 \in 1 .. Len(blocks)
        BY <1>3, <3>2
      <4>2. blocks[next.block + 1].first = block.last + 1
              /\ blocks[next.block + 1].first <= blocks[next.block + 1].last
        BY <1>8, <4>1
      <4> QED BY <1>3, <3>2, <4>2
    <3> QED BY <1>5, <3>1, <3>2
  <2>3. next'.block = Len(blocks) + 1 => next'.token = EndBefore(next.block)' + 1
    <3>1. CASE more
      BY <1>3, <3>1
    <3>2. CASE done
      <4>1. next'.block = next.block + 1 /\ next'.token = block.last + 1
        BY <3>2
      <4>2. EndBefore(next.block)' = EndBefore(next.block + 1)
        BY <1>1, <4>1 DEF EndBefore
      <4> QED BY <1>8, <4>1, <4>2
    <3> QED BY <1>5, <3>1, <3>2
  <2>4. /\ current'.parts > 0 /\ GroupFits(current)'
        /\ Runs(current'.tokens, StartOf(Len(groups) + 1)')
        /\ next'.token = LastOf(current'.tokens) + 1
    BY <1>2, <1>5 DEF Placed
  <2>5. current'.parts # 0
    <3>1. current'.parts \in Nat
      BY <1>2 DEF Placed, Group
    <3> QED BY <2>4, <3>1
  <2> HIDE DEF more, done, block
  <2> QED BY <1>1, <2>1, <2>2, <2>3, <2>4, <2>5 DEF NextInv
<1>10. GroupInv'
  BY <1>0, <1>2, <1>9 DEF GroupInv, Placed
<1>11. ChunkInv'
  <2>1. chunks = <<>> /\ previous = <<>>
    BY <1>0 DEF Inv, ChunkInv
  <2>2. Len(groups') \in Nat /\ Len(chunks') = 0 /\ chunks' = <<>> /\ previous' = <<>>
    BY <1>1, <1>2, <2>1, LenProperties DEF Placed
  <2> QED BY <1>0, <2>2 DEF ChunkInv
<1>12. KeptInv'
  <2>1. ASSUME NEW b \in 1 .. Len(blocks), Small(blocks[b]), b < next'.block
        PROVE  Grouped(blocks[b])' \/ Within(blocks[b], current'.tokens)
    <3>1. CASE b < next.block
      <4>1. Grouped(blocks[b]) \/ (current.parts > 0 /\ Within(blocks[b], current.tokens))
        BY <1>0, <2>1, <3>1 DEF Inv, KeptInv
      <4> QED BY <1>2, <4>1 DEF Placed
    <3>2. CASE ~ (b < next.block)
      <4>1. done /\ b = next.block
        BY <1>3, <1>5, <2>1, <3>2
      <4>2. next.token = block.first
        BY <1>0, <2>1, <4>1 DEF Inv, KeptInv
      <4>3. current'.tokens[1] <= next.token /\ LastOf(current'.tokens) = Last
        BY <1>2 DEF Placed
      <4>4. Within(blocks[b], current'.tokens)
        BY <1>3, <4>1, <4>2, <4>3 DEF Within
      <4> QED BY <4>4
    <3> QED BY <3>1, <3>2
  <2>2. ASSUME NEW b \in 1 .. Len(blocks), Small(blocks[b]), b = next'.block
        PROVE  next'.token = blocks[b].first
    <3>1. CASE more
      <4>1. next.token = block.first
        BY <1>0, <2>2, <3>1 DEF Inv, KeptInv
      <4>2. block.last - block.first < config.maximum
        BY <2>2, <3>1 DEF Small
      <4>3. Last = next.token + config.maximum - 1 /\ Last < block.last
        BY <1>3, <3>1
      <4>4. FALSE
        <5> HIDE DEF block
        <5> QED BY <1>3, <4>1, <4>2, <4>3
      <4> QED BY <4>4
    <3>2. CASE done
      <4>1. b = next.block + 1 /\ blocks[b].first = EndBefore(b) + 1
        BY <1>8, <2>2, <3>2
      <4> QED BY <1>8, <3>2, <4>1
    <3> QED BY <1>5, <3>1, <3>2
  <2>3. current'.parts > 0 /\ pc' = "groups"
    BY <1>0, <1>2 DEF Placed
  <2>4. ASSUME NEW b \in 1 .. Len(blocks'), Small(blocks[b])'
        PROVE  /\ b < next'.block =>
                    Grouped(blocks[b])' \/ (current'.parts > 0 /\ Within(blocks[b], current.tokens)')
               /\ b = next'.block => next'.token = blocks'[b].first
    <3>1. b \in 1 .. Len(blocks) /\ Small(blocks[b]) /\ blocks'[b] = blocks[b]
      BY <1>1, <2>4 DEF Small
    <3>2. Within(blocks[b], current'.tokens) => Within(blocks[b], current.tokens)'
      BY <3>1 DEF Within
    <3> QED BY <2>1, <2>2, <2>3, <3>1, <3>2
  <2> QED BY <2>3, <2>4 DEF KeptInv
<1> QED BY <1>6, <1>7, <1>10, <1>11, <1>12 DEF Inv

LEMMA EndGroupsInv == ASSUME Inv, EndGroups PROVE Inv'
<1>0. /\ pc = "groups" /\ next.block > Len(blocks) /\ groups' = Append(groups, current)
      /\ pc' = "chunks"
      /\ doc' = doc /\ config' = config /\ blocks' = blocks /\ index' = index
      /\ headings' = headings /\ chunks' = chunks /\ previous' = previous
      /\ next' = next /\ current' = current
  BY DEF EndGroups, inputVars, parseVars, chunkVars
<1>1. groups \in Seq(Group) /\ current \in Group /\ Len(groups) \in Nat /\ Len(blocks) \in Nat
        /\ next.block \in Nat /\ next.token \in Nat /\ current.parts \in Nat
  BY GroupsTyped, BlocksTyped DEF Inv, Typed, TypeOK, Position
<1>2. /\ groups' \in Seq(Group) /\ Len(groups') = Len(groups) + 1
      /\ \A g \in 1 .. Len(groups) : groups'[g] = groups[g]
      /\ groups'[Len(groups) + 1] = current
  BY <1>0, <1>1, AppendProperties
<1>3. next.block = Len(blocks) + 1 /\ next.token = EndBefore(Len(blocks) + 1) + 1
        /\ Len(blocks) >= 1
  <2>1. blocks # <<>>
    BY <1>0 DEF Inv, BlockInv
  <2>2. Len(blocks) >= 1
    BY <2>1, EmptySeq DEF Inv, Typed, TypeOK
  <2>3. next.block <= Len(blocks) + 1
    BY <1>0 DEF Inv, GroupInv, NextInv
  <2>4. next.block = Len(blocks) + 1
    BY <1>0, <1>1, <2>3
  <2> QED BY <1>0, <2>2, <2>4 DEF Inv, GroupInv, NextInv
<1>4. current.parts > 0
  <2>1. next.block # 1
    BY <1>1, <1>3
  <2>2. current.parts # 0
    BY <1>0, <2>1 DEF Inv, GroupInv, NextInv
  <2> QED BY <1>1, <2>2
<1>5. /\ GroupFits(current) /\ Runs(current.tokens, StartOf(Len(groups) + 1))
      /\ next.token = LastOf(current.tokens) + 1
  BY <1>0, <1>4 DEF Inv, GroupInv, NextInv
<1>6. Typed'
  BY <1>0, <1>2 DEF Inv, Typed, TypeOK
<1>7. BlockInv'
  BY <1>0 DEF Inv, BlockInv, EndBefore
<1>8. GroupInv'
  <2>1. \A g \in 1 .. Len(groups) + 1 : StartOf(g)' = StartOf(g)
    BY <1>1, <1>2 DEF StartOf
  <2>2. ASSUME NEW g \in 1 .. Len(groups')
        PROVE  GroupFits(groups[g])' /\ Runs(groups'[g].tokens, StartOf(g)')
    <3>1. CASE g \in 1 .. Len(groups)
      <4>1. GroupFits(groups[g]) /\ Runs(groups[g].tokens, StartOf(g))
        BY <3>1 DEF Inv, GroupInv
      <4>2. groups'[g] = groups[g] /\ StartOf(g)' = StartOf(g)
        BY <1>1, <1>2, <2>1, <3>1
      <4> QED BY <1>0, <4>1, <4>2 DEF GroupFits
    <3>2. CASE g = Len(groups) + 1
      <4>1. groups'[g] = current /\ StartOf(g)' = StartOf(g)
        BY <1>1, <1>2, <2>1, <3>2
      <4> QED BY <1>0, <1>5, <3>2, <4>1 DEF GroupFits
    <3> QED BY <1>1, <1>2, <3>1, <3>2
  <2>3. StartOf(Len(groups) + 1)' = next.token
    <3>1. Len(groups') + 1 # 1 /\ Len(groups') + 1 - 1 = Len(groups) + 1
      BY <1>1, <1>2
    <3> QED BY <1>2, <1>5, <3>1 DEF StartOf
  <2>4. Upto(doc, Len(doc)) = EndBefore(Len(blocks) + 1)
    BY <1>0 DEF Inv, BlockInv
  <2>5. StartOf(Len(groups) + 1)' = Upto(doc, Len(doc))' + 1
    <3>1. Upto(doc, Len(doc))' = Upto(doc, Len(doc))
      BY <1>0 DEF Upto
    <3> QED BY <1>3, <2>3, <2>4, <3>1
  <2> QED BY <1>0, <2>2, <2>5 DEF GroupInv
<1>9. ChunkInv'
  <2>1. chunks = <<>> /\ previous = <<>>
    BY <1>0 DEF Inv, ChunkInv
  <2>2. Len(groups') \in Nat /\ Len(chunks') = 0 /\ chunks' = <<>> /\ previous' = <<>>
    BY <1>0, <1>1, <1>2, <2>1
  <2> QED BY <1>0, <2>2 DEF ChunkInv
<1>10. KeptInv'
  <2>1. ASSUME NEW b \in 1 .. Len(blocks), Small(blocks[b]) PROVE Grouped(blocks[b])'
    <3>1. b < next.block
      BY <1>1, <1>3
    <3>2. Grouped(blocks[b]) \/ Within(blocks[b], current.tokens)
      BY <1>0, <2>1, <3>1 DEF Inv, KeptInv
    <3>3. CASE Grouped(blocks[b])
      <4>1. PICK g \in 1 .. Len(groups) : Within(blocks[b], groups[g].tokens)
        BY <3>3 DEF Grouped
      <4>2. g \in 1 .. Len(groups') /\ groups'[g] = groups[g]
        BY <1>1, <1>2
      <4> QED BY <1>0, <4>1, <4>2 DEF Grouped, Within
    <3>4. CASE Within(blocks[b], current.tokens)
      <4>1. Len(groups) + 1 \in 1 .. Len(groups')
        BY <1>1, <1>2
      <4> QED BY <1>0, <1>2, <3>4, <4>1 DEF Grouped, Within
    <3> QED BY <3>2, <3>3, <3>4
  <2> QED BY <1>0, <2>1 DEF KeptInv, Small
<1> QED BY <1>6, <1>7, <1>8, <1>9, <1>10 DEF Inv

-----------------------------------------------------------------------------
(* The chunks.                                                             *)

(* _tail_tokens of a run, for a limit above 0, is the end of the run.       *)
LEMMA LastOfRun ==
  ASSUME NEW a \in Position, NEW b \in Nat, a <= b, NEW l \in Nat, l # 0
  PROVE  \E c \in Position : /\ a <= c /\ c <= b /\ b - c + 1 <= l
                            /\ LastTokens(Tokens(a, b), l) = Tokens(c, b)
<1>1. a \in Nat /\ a >= 1 /\ a <= b + 1
  BY DEF Position
<1>2. Len(Tokens(a, b)) = b - a + 1
  BY <1>1, TokensAre
<1>3. CASE l >= b - a + 1
  <2>1. LastTokens(Tokens(a, b), l) = Tokens(a, b)
    BY <1>2, <1>3 DEF LastTokens
  <2> QED BY <1>1, <1>3, <2>1
<1>4. CASE l < b - a + 1
  <2>1. LastTokens(Tokens(a, b), l) = Tokens(b - l + 1, b)
    BY <1>1, <1>4, TokensTail
  <2>2. /\ b - l + 1 \in Position /\ a <= b - l + 1 /\ b - l + 1 <= b
        /\ b - (b - l + 1) + 1 <= l
    BY <1>1, <1>4 DEF Position
  <2> QED BY <2>1, <2>2
<1> QED BY <1>1, <1>3, <1>4

LEMMA ContentIs ==
  ASSUME NEW chunk, NEW group, NEW start, OverlapFits(chunk, group, start),
         Runs(group.tokens, start), Len(chunk.overlap) \in Nat
  PROVE  /\ Content(chunk) = Tokens(start - Len(chunk.overlap), LastOf(group.tokens))
         /\ start - Len(chunk.overlap) \in Position
         /\ start - Len(chunk.overlap) <= LastOf(group.tokens)
<1> DEFINE last == LastOf(group.tokens)
           n == Len(chunk.overlap)
<1>1. /\ start \in Nat /\ start >= 1 /\ last \in Nat /\ start <= last
      /\ group.tokens = Tokens(start, last)
  BY RunsAre DEF Runs
<1>2. n \in Nat /\ n < start /\ chunk.overlap = Tokens(start - n, start - 1)
        /\ chunk.body = Tokens(start, last)
  BY <1>1 DEF OverlapFits
<1> HIDE DEF n, last
<1>3. /\ start - n \in Position /\ start - 1 \in Nat /\ start - n <= (start - 1) + 1
      /\ start - 1 <= last /\ start - n <= last /\ (start - 1) + 1 = start
  BY <1>1, <1>2 DEF Position
<1>4. Tokens(start - n, start - 1) \o Tokens((start - 1) + 1, last) = Tokens(start - n, last)
  BY <1>1, <1>3, TokensJoin
<1>5. Content(chunk) = Tokens(start - n, last)
  BY <1>2, <1>3, <1>4 DEF Content
<1> QED BY <1>3, <1>5 DEF n, last

(* The next chunk: what it repeats ends right before its group, and both    *)
(* fit the maximum.                                                        *)
LEMMA NextChunk ==
  ASSUME Inv, pc = "chunks", Len(chunks) < Len(groups), NEW overlap,
         overlap = Overlap(groups[Len(chunks) + 1].tokens)
  PROVE  LET group == groups[Len(chunks) + 1]
             start == StartOf(Len(chunks) + 1)
         IN  /\ overlap \in Seq(Position) /\ Len(overlap) \in Nat
             /\ Len(overlap) + Len(group.tokens) <= config.maximum
             /\ Len(overlap) < start
             /\ overlap = Tokens(start - Len(overlap), start - 1)
<1> DEFINE n == Len(chunks)
           tokens == groups[n + 1].tokens
           start == StartOf(n + 1)
           available == config.maximum - Len(tokens)
           tail == LastTokens(previous, config.overlap)
<1>1. n \in Nat /\ Len(groups) \in Nat /\ n + 1 \in 1 .. Len(groups)
  BY ChunksTyped, GroupsTyped DEF Inv
<1>2. Runs(tokens, start) /\ Len(tokens) <= config.maximum
  BY <1>1 DEF Inv, GroupInv, GroupFits
<1>3. start \in Nat /\ start >= 1 /\ start \in Position /\ Len(tokens) \in Nat
  BY <1>2, RunsAre DEF Position
<1>4. config.maximum \in Nat /\ config.overlap \in Nat
  BY ConfigTyped DEF Inv, Typed, TypeOK
<1>5. available \in Nat
  BY <1>2, <1>3, <1>4
<1>6. CASE overlap = <<>>
  <2>1. start - 1 \in Nat /\ start <= (start - 1) + 1 /\ (start - 1) - start + 1 = 0
          /\ start - 0 = start
    BY <1>3
  <2>2. Tokens(start, start - 1) \in Seq(Position) /\ Len(Tokens(start, start - 1)) = 0
    BY <1>3, <2>1, TokensAre
  <2>3. Tokens(start, start - 1) = <<>>
    BY <2>2, EmptySeq
  <2>4. overlap \in Seq(Position) /\ Len(overlap) = 0
    BY <1>6, EmptySeq
  <2>5. overlap = Tokens(start - Len(overlap), start - 1)
    BY <1>6, <2>1, <2>3, <2>4
  <2> HIDE DEF n, tokens, start
  <2>6. Len(overlap) + Len(tokens) <= config.maximum /\ Len(overlap) < start /\ Len(overlap) \in Nat
    BY <1>2, <1>3, <2>4
  <2> QED BY <2>4, <2>5, <2>6 DEF n, tokens, start
<1>7. CASE overlap # <<>>
  <2>1. /\ chunks # <<>> /\ config.overlap > 0 /\ available > 0
        /\ overlap = LastTokens(tail, Min({config.overlap, available}))
    BY <1>7 DEF Overlap
  <2>2. n \in 1 .. Len(groups) /\ n \in 1 .. Len(chunks) /\ n # 0
    BY <1>1, <2>1, EmptySeq DEF Inv, Typed, TypeOK
  <2> DEFINE begin == StartOf(n) - Len(chunks[n].overlap)
             end == LastOf(groups[n].tokens)
  <2>3. /\ previous = Content(chunks[n]) /\ Runs(groups[n].tokens, StartOf(n))
        /\ OverlapFits(chunks[n], groups[n], StartOf(n)) /\ Len(chunks[n].overlap) \in Nat
    BY <2>1, <2>2, ChunksTyped DEF Inv, ChunkInv, GroupInv
  <2>4. /\ previous = Tokens(begin, end) /\ begin \in Position /\ begin <= end /\ end \in Nat
    BY <2>3, ContentIs, RunsAre
  <2>5. start = end + 1
    BY <1>1, <2>2 DEF StartOf
  <2> HIDE DEF begin, end, start, available, n, tokens
  <2>6. PICK c \in Position : begin <= c /\ c <= end /\ tail = Tokens(c, end)
    BY <1>4, <2>1, <2>4, LastOfRun
  <2> DEFINE l == Min({config.overlap, available})
  <2>7. l \in Nat /\ l # 0 /\ l <= available
    BY <1>4, <1>5, <2>1, MinOfTwo
  <2> HIDE DEF l, tail
  <2>8. PICK d \in Position : c <= d /\ d <= end /\ end - d + 1 <= l
                             /\ LastTokens(Tokens(c, end), l) = Tokens(d, end)
    BY <2>4, <2>6, <2>7, LastOfRun
  <2>9. overlap = Tokens(d, end)
    BY <2>1, <2>6, <2>8 DEF l
  <2>10. d \in Nat /\ d >= 1 /\ d <= end + 1
    BY <2>4, <2>8 DEF Position
  <2>11. Len(overlap) = end - d + 1 /\ overlap \in Seq(Position)
    BY <2>4, <2>9, <2>10, TokensAre
  <2>12. end - d + 1 \in Nat /\ end - d + 1 < start /\ start - (end - d + 1) = d /\ start - 1 = end
    BY <2>4, <2>5, <2>8, <2>10
  <2>13. overlap = Tokens(start - Len(overlap), start - 1) /\ Len(overlap) < start
           /\ Len(overlap) \in Nat
    BY <2>9, <2>11, <2>12
  <2>14. Len(overlap) + Len(tokens) <= config.maximum
    <3>1. available + Len(tokens) = config.maximum
      BY <1>3, <1>4 DEF available
    <3>2. Len(overlap) <= l
      BY <2>8, <2>11, Zenon
    <3>3. Len(overlap) <= available
      BY <1>5, <2>7, <2>13, <3>2
    <3> QED BY <1>3, <1>4, <1>5, <2>13, <3>1, <3>3
  <2> QED BY <2>11, <2>13, <2>14 DEF n, tokens, start
<1> QED BY <1>6, <1>7

LEMMA EmitChunkInv == ASSUME Inv, EmitChunk PROVE Inv'
<1> DEFINE n == Len(chunks)
           group == groups[n + 1]
           overlap == Overlap(group.tokens)
           chunk == [path |-> group.path, from |-> group.from, to |-> group.to,
                     overlap |-> overlap, body |-> group.tokens]
<1>0. /\ pc = "chunks" /\ Len(chunks) < Len(groups) /\ chunks' = Append(chunks, chunk)
      /\ previous' = overlap \o group.tokens /\ pc' = pc
      /\ doc' = doc /\ config' = config /\ blocks' = blocks /\ index' = index
      /\ headings' = headings /\ groups' = groups
      /\ next' = next /\ current' = current
  BY DEF EmitChunk, inputVars, parseVars, groupVars
<1>1. n \in Nat /\ Len(groups) \in Nat /\ n + 1 \in 1 .. Len(groups) /\ chunks \in Seq(Chunk)
  BY <1>0, ChunksTyped, GroupsTyped DEF Inv, Typed, TypeOK
<1>2. /\ overlap \in Seq(Position) /\ Len(overlap) \in Nat
      /\ Len(overlap) + Len(group.tokens) <= config.maximum
      /\ Len(overlap) < StartOf(n + 1)
      /\ overlap = Tokens(StartOf(n + 1) - Len(overlap), StartOf(n + 1) - 1)
  <2> HIDE DEF overlap
  <2> QED BY <1>0, NextChunk DEF overlap
<1> HIDE DEF overlap
<1>3. /\ group.tokens \in Seq(Position) /\ group.path \in Seq(Position)
      /\ group.from \in Nat /\ group.to \in Nat
  BY <1>1, GroupsTyped DEF Inv
<1> HIDE DEF group
<1>4. /\ chunk \in Chunk /\ chunk.overlap = overlap /\ chunk.body = group.tokens
  BY <1>2, <1>3 DEF Chunk
<1> HIDE DEF chunk
<1>5. /\ chunks' \in Seq(Chunk) /\ Len(chunks') = n + 1 /\ chunks' # <<>>
      /\ \A k \in 1 .. n : chunks'[k] = chunks[k]
      /\ chunks'[n + 1] = chunk
  BY <1>0, <1>1, <1>4, AppendProperties
<1>6. previous' \in Seq(Position)
  BY <1>0, <1>2, <1>3, ConcatProperties
<1>7. Typed'
  BY <1>0, <1>5, <1>6 DEF Inv, Typed, TypeOK
<1>8. BlockInv' /\ GroupInv' /\ KeptInv'
  BY <1>0 DEF Inv, BlockInv, EndBefore, GroupInv, GroupFits, StartOf, KeptInv, Grouped, Small,
              Within
<1>9. ChunkInv'
  <2>1. ASSUME NEW k \in 1 .. Len(chunks')
        PROVE  OverlapFits(chunks[k], groups[k], StartOf(k))'
    <3>1. StartOf(k)' = StartOf(k) /\ groups'[k] = groups[k]
      BY <1>0 DEF StartOf
    <3>2. CASE k \in 1 .. n
      <4>1. OverlapFits(chunks[k], groups[k], StartOf(k))
        BY <3>2 DEF Inv, ChunkInv
      <4>2. chunks'[k] = chunks[k]
        BY <1>5, <3>2
      <4> QED BY <1>0, <3>1, <4>1, <4>2 DEF OverlapFits
    <3>3. CASE k = n + 1
      <4>1. chunks'[k] = chunk /\ groups'[k] = group
        BY <1>5, <3>1, <3>3 DEF group
      <4> QED BY <1>0, <1>2, <1>4, <3>1, <3>3, <4>1 DEF OverlapFits
    <3> QED BY <1>1, <1>5, <3>2, <3>3
  <2>2. previous' = Content(chunks[Len(chunks)])'
    BY <1>0, <1>4, <1>5 DEF Content
  <2>3. Len(chunks') <= Len(groups')
    BY <1>0, <1>1, <1>5
  <2> QED BY <1>0, <1>5, <2>1, <2>2, <2>3 DEF ChunkInv
<1> QED BY <1>7, <1>8, <1>9 DEF Inv

LEMMA EndChunksInv == ASSUME Inv, EndChunks PROVE Inv'
<1>0. /\ pc = "chunks" /\ Len(chunks) = Len(groups) /\ pc' = "done"
      /\ UNCHANGED <<doc, config, blocks, index, headings, groups, next, current, chunks, previous>>
  BY DEF EndChunks, inputVars, parseVars, groupVars, chunkVars
<1>1. Typed'
  BY <1>0 DEF Inv, Typed, TypeOK
<1>2. BlockInv' /\ GroupInv' /\ KeptInv'
  BY <1>0 DEF Inv, BlockInv, EndBefore, GroupInv, GroupFits, StartOf, KeptInv
<1>3. ChunkInv'
  BY <1>0, GroupsTyped DEF Inv, ChunkInv, OverlapFits, StartOf, Content
<1> QED BY <1>1, <1>2, <1>3 DEF Inv

LEMMA InvStep == Inv /\ [Next]_vars => Inv'
<1> SUFFICES ASSUME Inv, [Next]_vars PROVE Inv'
  OBVIOUS
<1>1. CASE UNCHANGED vars
  <2>1. UNCHANGED <<doc, config, pc, blocks, index, headings, groups, next, current, chunks, previous>>
    BY <1>1 DEF vars, inputVars, parseVars, groupVars, chunkVars
  <2>2. Typed' /\ BlockInv'
    BY <2>1 DEF Inv, Typed, TypeOK, BlockInv, EndBefore
  <2>3. GroupInv'
    BY <2>1 DEF Inv, GroupInv, GroupFits, StartOf, NextInv, EndBefore
  <2>4. ChunkInv' /\ KeptInv'
    BY <2>1 DEF Inv, ChunkInv, OverlapFits, StartOf, Content, KeptInv, Grouped, Small, Within
  <2> QED BY <2>2, <2>3, <2>4 DEF Inv
<1> QED
  BY <1>1, SkipBlankInv, ParseBlockInv, EndBlocksInv, AddPieceInv, EndGroupsInv, EmitChunkInv,
     EndChunksInv DEF Next

LEMMA InvAlways == Spec => []Inv
  BY InitInv, InvStep, PTL DEF Spec

-----------------------------------------------------------------------------
(* The headings.  While no heading skips a level the open ones have the     *)
(* levels 1, 2, ...: cutting the path at a level by its length cuts it by   *)
(* the levels of its headings.  Notes that do skip one are the reason why   *)
(* the invariant is conditional.                                           *)

(* The lines of the blocks follow one another, and a block is a heading as  *)
(* its first line is.                                                      *)
LinesInv ==
  /\ \A b \in 1 .. Len(blocks) :
       /\ blocks[b].from <= blocks[b].to /\ blocks[b].to < index
       /\ blocks[b].to <= Len(doc)
       /\ blocks[b].kind = "heading" => doc[blocks[b].from].kind = "heading"
  /\ \A a, b \in 1 .. Len(blocks) : a < b => blocks[a].to < blocks[b].from

(* As long as no heading has skipped a level, the open headings are those   *)
(* over the line at work, one of each level.                               *)
Named(path) == {path[n] : n \in 1 .. Len(path)}
Levelled(path, lines) == \A n \in 1 .. Len(path) : lines[path[n]].level = n
OpenInv ==
  NoLevelSkipped =>
    /\ Levelled(headings, doc)
    /\ Named(headings) = Above(index - 1)
    /\ \A b \in 1 .. Len(blocks) : Named(blocks[b].path) = Above(blocks[b].from)

(* A group is a run of blocks under the heading of the first of them.       *)
Spans(part, a, b) ==
  /\ part.path = blocks[a].path /\ part.from = blocks[a].from /\ part.to = blocks[b].to
  /\ a <= b
  /\ \A c \in a + 1 .. b : blocks[c].kind # "heading"
Section(part) == \E a, b \in 1 .. Len(blocks) : Spans(part, a, b)

SpanInv ==
  /\ pc = "groups" /\ current.parts > 0 =>
       \E a, b \in 1 .. Len(blocks) :
         Spans(current, a, b) /\ b <= next.block /\ next.block <= b + 1
  /\ \A g \in 1 .. Len(groups) : Section(groups[g])
  /\ \A k \in 1 .. Len(chunks) : Section(chunks[k])

SectInv == LinesInv /\ OpenInv /\ SpanInv

(* Above, for any set of headings.                                         *)
Over(heads, lines, k) ==
  {h \in heads : h <= k /\ \A g \in heads : h < g /\ g <= k => lines[g].level > lines[h].level}

LEMMA AboveIsOver == \A k : Above(k) = Over(HeadingLines, doc, k)
  BY DEF Above, Over

LEMMA OverSame ==
  ASSUME NEW heads \in SUBSET Nat, NEW lines, NEW j \in Nat, NEW k \in Nat, j <= k,
         \A h \in heads : h <= k => h <= j
  PROVE  Over(heads, lines, k) = Over(heads, lines, j)
<1>1. \A h \in heads : h <= k <=> h <= j
  OBVIOUS
<1> QED BY <1>1 DEF Over

LEMMA OverEarlier ==
  ASSUME NEW heads \in SUBSET Nat, NEW lines, NEW k \in Nat, NEW i \in Nat, k < i
  PROVE  Over(heads \cup {i}, lines, k) = Over(heads, lines, k)
<1>1. ~ (i <= k)
  OBVIOUS
<1> QED BY <1>1 DEF Over

(* A new heading closes those of its level and below.                       *)
LEMMA OverNew ==
  ASSUME NEW heads \in SUBSET Nat, NEW lines, NEW i \in Nat, i >= 1,
         \A h \in heads : h <= i - 1
  PROVE  Over(heads \cup {i}, lines, i) =
           {i} \cup {h \in Over(heads, lines, i - 1) : lines[i].level > lines[h].level}
<1>1. \A h \in heads : h \in Nat /\ h <= i /\ h < i /\ h <= i - 1 /\ h # i /\ ~ (i < h)
  OBVIOUS
<1>2. i <= i /\ ~ (i < i)
  OBVIOUS
<1>3. ASSUME NEW h \in heads
      PROVE  h \in Over(heads \cup {i}, lines, i) <=>
               h \in Over(heads, lines, i - 1) /\ lines[i].level > lines[h].level
  <2>1. (\A g \in heads \cup {i} : h < g /\ g <= i => lines[g].level > lines[h].level) <=>
          /\ \A g \in heads : h < g /\ g <= i - 1 => lines[g].level > lines[h].level
          /\ lines[i].level > lines[h].level
    BY <1>1, <1>2, <1>3
  <2> QED BY <1>1, <1>3, <2>1 DEF Over
<1>4. i \in Over(heads \cup {i}, lines, i)
  BY <1>1, <1>2 DEF Over
<1>5. /\ Over(heads \cup {i}, lines, i) \subseteq heads \cup {i}
      /\ Over(heads, lines, i - 1) \subseteq heads
  BY DEF Over
<1> QED BY <1>3, <1>4, <1>5

(* The path new: the first l - 1 headings of path, and i.                   *)
Cuts(new, path, i, l) ==
  Len(new) = l /\ new[l] = i /\ \A n \in 1 .. l - 1 : new[n] = path[n]

(* Path's cut, for a new heading i of a level l that skips none.            *)
LEMMA CutIs ==
  ASSUME NEW path \in Seq(Position), NEW i \in Position, NEW l \in Nat, l # 0,
         l - 1 <= Len(path),
         NEW new, new = Append(SubSeq(path, 1, l - 1), i)
  PROVE  Cuts(new, path, i, l)
<1>1. Len(path) \in Nat /\ path \in [1 .. Len(path) -> Position] /\ l - 1 \in Nat
  BY LenProperties
<1> DEFINE kept == SubSeq(path, 1, l - 1)
<1>3. \A n \in 1 .. l - 1 : n \in 1 .. Len(path) /\ path[n] \in Position
  BY <1>1
<1>4. /\ kept \in Seq(Position) /\ Len(kept) = l - 1
      /\ \A n \in 1 .. (l - 1) - 1 + 1 : kept[n] = path[1 + n - 1]
  BY <1>1, <1>3, SubSeqProperties
<1> HIDE DEF kept
<1>5. ASSUME NEW n \in 1 .. l - 1 PROVE kept[n] = path[n]
  <2>1. n \in 1 .. (l - 1) - 1 + 1 /\ 1 + n - 1 = n
    BY <1>1
  <2> QED BY <1>4, <2>1
<1> DEFINE cut == Append(kept, i)
<1>6. /\ Len(cut) = Len(kept) + 1 /\ \A n \in 1 .. Len(kept) : cut[n] = kept[n]
      /\ cut[Len(kept) + 1] = i
  BY <1>4, AppendProperties
<1> HIDE DEF cut
<1>7. Len(cut) = l /\ cut[l] = i /\ \A n \in 1 .. l - 1 : cut[n] = path[n]
  <2>1. Len(kept) + 1 = l
    BY <1>4
  <2> QED BY <1>4, <1>5, <1>6, <2>1
<1>8. new = cut
  BY DEF cut, kept
<1> QED BY <1>7, <1>8, Zenon DEF Cuts

LEMMA UpTo ==
  ASSUME NEW l \in Nat, l # 0, NEW m \in Nat, l - 1 <= m
  PROVE  /\ l \in 1 .. l /\ l - 1 \in Nat
         /\ \A n \in 1 .. l : n = l \/ n \in 1 .. l - 1
         /\ \A n \in 1 .. l - 1 : n \in 1 .. l /\ n \in 1 .. m /\ n < l
  OBVIOUS

LEMMA LevelsReach ==
  ASSUME NEW path, Len(path) \in Nat, NEW lines, NEW i, NEW l \in Nat, l # 0,
         lines[i].level = l,
         Levelled(path, lines),
         NEW over, \A h \in over : h = i \/ h \in Named(path),
         \A m \in 1 .. l : \E g \in over : lines[g].level = m
  PROVE  l - 1 <= Len(path)
<1> SUFFICES ASSUME ~ (l - 1 <= Len(path)) PROVE FALSE
  OBVIOUS
<1>1. l - 1 \in 1 .. l
  OBVIOUS
<1>2. PICK g \in over : lines[g].level = l - 1
  BY <1>1
<1>3. g # i
  BY <1>2
<1>4. PICK n \in 1 .. Len(path) : g = path[n]
  BY <1>3 DEF Named
<1>5. n = l - 1
  BY <1>2, <1>4 DEF Levelled
<1> QED BY <1>4, <1>5

(* Those of path and of the heading i that i leaves open.                   *)
LeftOpen(path, lines, i, l) == {i} \cup {h \in Named(path) : l > lines[h].level}

LEMMA PathCut ==
  ASSUME NEW path, NEW i, NEW l \in Nat, NEW cut, Cuts(cut, path, i, l),
         NEW lines, Levelled(path, lines), lines[i].level = l,
         Len(path) \in Nat, l # 0, l - 1 <= Len(path)
  PROVE  Levelled(cut, lines) /\ Named(cut) = LeftOpen(path, lines, i, l)
<1> DEFINE over == LeftOpen(path, lines, i, l)
<1>0. /\ i \in over
      /\ \A h \in over : h = i \/ (h \in Named(path) /\ l > lines[h].level)
      /\ \A h \in Named(path) : l > lines[h].level => h \in over
  BY DEF LeftOpen
<1> HIDE DEF over
<1>1. Len(cut) = l /\ cut[l] = i /\ \A n \in 1 .. l - 1 : cut[n] = path[n]
  BY DEF Cuts
<1>2. \A n \in 1 .. Len(cut) : n = l \/ n \in 1 .. l - 1
  BY <1>1, UpTo, Zenon
<1>3. \A n \in 1 .. l - 1 : n \in 1 .. Len(path) /\ n \in 1 .. Len(cut) /\ n < l
  BY <1>1, UpTo, Zenon
<1>4. l \in 1 .. Len(cut)
  BY <1>1, UpTo, Zenon
<1>5. Levelled(cut, lines)
  BY <1>1, <1>2, <1>3, Zenon DEF Levelled
<1>6. ASSUME NEW h \in Named(cut) PROVE h \in over
  <2>1. PICK n \in 1 .. Len(cut) : h = cut[n]
    BY <1>6 DEF Named
  <2>2. CASE n = l
    BY <1>0, <1>1, <2>1, <2>2, Zenon
  <2>3. CASE n \in 1 .. l - 1
    <3>1. h = path[n] /\ n \in 1 .. Len(path) /\ lines[h].level = n /\ n < l
      BY <1>1, <1>3, <2>1, <2>3, Zenon DEF Levelled
    <3>2. h \in Named(path) /\ l > lines[h].level
      BY <3>1 DEF Named
    <3> QED BY <1>0, <3>2, Zenon
  <2> QED BY <1>2, <2>2, <2>3
<1>7. ASSUME NEW h \in over PROVE h \in Named(cut)
  <2>1. CASE h = i
    BY <1>1, <1>4, <2>1 DEF Named
  <2>2. CASE h \in Named(path) /\ l > lines[h].level
    <3>1. PICK n \in 1 .. Len(path) : h = path[n]
      BY <2>2 DEF Named
    <3>2. lines[h].level = n
      BY <3>1, Zenon DEF Levelled
    <3>3. n \in 1 .. l - 1
      BY <2>2, <3>1, <3>2
    <3>4. n \in 1 .. Len(cut) /\ cut[n] = h
      BY <1>1, <1>3, <3>1, <3>3, Zenon
    <3> QED BY <3>4, Zenon DEF Named
  <2> QED BY <1>0, <1>7, <2>1, <2>2, Zenon
<1>8. Named(cut) \subseteq over /\ over \subseteq Named(cut)
  BY <1>6, <1>7
<1> QED BY <1>5, <1>8 DEF over

(* The headings of the note lie before the line at work.                    *)
LEMMA HeadingsBefore ==
  ASSUME Inv, LinesInv
  PROVE  /\ HeadingLines \in SUBSET Nat /\ index \in Nat /\ index >= 1 /\ index - 1 \in Nat
         /\ \A h \in HeadingLines : h <= index - 1 /\ h \in 1 .. Len(doc)
                                    /\ doc[h].level \in Nat /\ doc[h].level # 0
<1>1. index \in Nat /\ index >= 1 /\ Len(doc) \in Nat /\ doc \in Documents
        /\ DOMAIN doc = 1 .. Len(doc)
  BY NoteTyped DEF Inv, Typed, TypeOK
<1>2. ASSUME NEW h \in HeadingLines
      PROVE  h \in Nat /\ h <= index - 1 /\ h \in 1 .. Len(doc)
             /\ doc[h].level \in Nat /\ doc[h].level # 0
  <2>1. PICK b \in DOMAIN blocks : h = blocks[b].from /\ blocks[b].kind = "heading"
    BY <1>2 DEF HeadingLines
  <2>2. b \in 1 .. Len(blocks) /\ blocks[b] \in Block
    BY <2>1, BlocksTyped DEF Inv
  <2>3. /\ blocks[b].from <= blocks[b].to /\ blocks[b].to < index /\ blocks[b].to <= Len(doc)
        /\ doc[h].kind = "heading"
    BY <2>1, <2>2 DEF LinesInv
  <2>4. h \in Nat /\ h >= 1 /\ blocks[b].to \in Nat
    BY <2>1, <2>2 DEF Block, Position
  <2>5. h \in 1 .. Len(doc) /\ h <= index - 1
    BY <1>1, <2>1, <2>3, <2>4
  <2>6. doc[h].level \in 0 .. 6 /\ doc[h].level # 0
    BY <1>1, <2>3, <2>5, NoteTyped, ChunkerAssumption
  <2> QED BY <2>4, <2>5, <2>6
<1>3. HeadingLines \in SUBSET Nat
  BY <1>2
<1> QED BY <1>1, <1>2, <1>3

LEMMA ParseSame ==
  ASSUME LinesInv, OpenInv, doc' = doc, index' = index, headings' = headings, blocks' = blocks
  PROVE  LinesInv' /\ OpenInv'
<1>1. LinesInv'
  BY DEF LinesInv
<1>2. HeadingLines' = HeadingLines
  BY DEF HeadingLines
<1>3. \A k : Above(k)' = Above(k)
  BY <1>2 DEF Above
<1>4. NoLevelSkipped' => NoLevelSkipped
  BY <1>2, <1>3 DEF NoLevelSkipped
<1>5. Above(index - 1)' = Above(index - 1)
  BY <1>2 DEF Above
<1>6. ASSUME NEW b \in 1 .. Len(blocks) PROVE Above(blocks[b].from)' = Above(blocks[b].from)
  BY <1>2 DEF Above
<1>7. ASSUME NoLevelSkipped'
      PROVE  /\ Levelled(headings, doc)'
             /\ Named(headings)' = Above(index - 1)'
             /\ \A b \in 1 .. Len(blocks') : Named(blocks[b].path)' = Above(blocks[b].from)'
  <2>1. /\ Levelled(headings, doc)
        /\ Named(headings) = Above(index - 1)
        /\ \A b \in 1 .. Len(blocks) : Named(blocks[b].path) = Above(blocks[b].from)
    BY <1>4, <1>7 DEF OpenInv
  <2>2. /\ Named(headings)' = Named(headings)
        /\ \A b : Named(blocks[b].path)' = Named(blocks[b].path)
        /\ Levelled(headings, doc)' = Levelled(headings, doc)
    BY DEF Named, Levelled
  <2> QED BY <1>5, <1>6, <2>1, <2>2
<1>8. OpenInv'
  BY <1>7 DEF OpenInv
<1> QED BY <1>1, <1>8

LEMMA SkipBlankSect == ASSUME Inv, SectInv, SkipBlank PROVE SectInv'
<1>0. /\ pc = "blocks" /\ pc' = pc /\ index' = index + 1
      /\ doc' = doc /\ headings' = headings /\ blocks' = blocks /\ groups' = groups
      /\ chunks' = chunks
  BY DEF SkipBlank, inputVars, groupVars, chunkVars
<1>1. /\ HeadingLines \in SUBSET Nat /\ index \in Nat /\ index - 1 \in Nat
      /\ \A h \in HeadingLines : h <= index - 1
  BY HeadingsBefore DEF SectInv
<1>2. LinesInv'
  <2>1. \A b \in 1 .. Len(blocks) : blocks[b].to \in Nat /\ blocks[b].to < index
    BY BlocksTyped DEF Inv, SectInv, LinesInv, Block, Position
  <2>2. \A b \in 1 .. Len(blocks) : blocks[b].to < index'
    BY <1>0, <1>1, <2>1
  <2> QED BY <1>0, <2>2 DEF SectInv, LinesInv
<1>3. OpenInv'
  <2>1. HeadingLines' = HeadingLines
    BY <1>0 DEF HeadingLines
  <2>2. \A k : Above(k)' = Above(k)
    BY <1>0, <2>1 DEF Above
  <2>3. NoLevelSkipped' => NoLevelSkipped
    BY <1>0, <2>1, <2>2 DEF NoLevelSkipped
  <2>4. Above(index - 1)' = Above(index)
    <3>1. index' - 1 = index
      BY <1>0, <1>1
    <3> QED BY <1>0, <2>1, <3>1 DEF Above
  <2>5. Above(index) = Above(index - 1)
    <3>1. Over(HeadingLines, doc, index) = Over(HeadingLines, doc, index - 1)
      BY <1>1, OverSame
    <3> QED BY <3>1, AboveIsOver
  <2>6. \A b : Above(blocks[b].from)' = Above(blocks[b].from)
    BY <1>0, <2>1 DEF Above
  <2>7. Named(headings)' = Named(headings) /\ \A b : Named(blocks[b].path)' = Named(blocks[b].path)
          /\ Levelled(headings, doc)' = Levelled(headings, doc)
    BY <1>0 DEF Named, Levelled
  <2> QED BY <1>0, <2>3, <2>4, <2>5, <2>6, <2>7 DEF SectInv, OpenInv
<1>4. SpanInv'
  BY <1>0 DEF SectInv, SpanInv, Section, Spans
<1> QED BY <1>2, <1>3, <1>4 DEF SectInv

(* What the new block does to the headings over a line.                     *)
LEMMA NewHeadings ==
  ASSUME Inv, LinesInv, ParseBlock
  PROVE  /\ HeadingLines' = IF KindAt(index) = "heading" THEN HeadingLines \cup {index}
                            ELSE HeadingLines
         /\ \A k \in Nat : k < index => Above(k)' = Above(k)
         /\ \A k \in Nat : index <= k => Above(k)' =
              IF KindAt(index) = "heading"
              THEN {index} \cup {h \in Above(index - 1) : doc[index].level > doc[h].level}
              ELSE Above(index - 1)
         /\ NoLevelSkipped' => NoLevelSkipped
<1> DEFINE block == [kind |-> BlockKind(index), path |-> Path(index), from |-> index,
                     to |-> After(index) - 1, first |-> Upto(doc, index - 1) + 1,
                     last |-> Upto(doc, After(index) - 1)]
<1>0. pc = "blocks" /\ blocks' = Append(blocks, block) /\ doc' = doc
  BY DEF ParseBlock, inputVars
<1>1. block.kind = BlockKind(index) /\ block.from = index
  OBVIOUS
<1> HIDE DEF block
<1>2. blocks \in Seq(Block) /\ Len(blocks) \in Nat /\ DOMAIN blocks = 1 .. Len(blocks)
  BY BlocksTyped DEF Inv, Typed, TypeOK
<1>3. /\ Len(blocks') = Len(blocks) + 1 /\ DOMAIN blocks' = 1 .. Len(blocks) + 1
      /\ \A b \in 1 .. Len(blocks) : blocks'[b] = blocks[b]
      /\ blocks'[Len(blocks) + 1] = block
  <2>1. Inv'
    BY ParseBlockInv
  <2>2. DOMAIN blocks' = 1 .. Len(blocks')
    BY <2>1, LenProperties DEF Inv, Typed, TypeOK
  <2> QED BY <1>0, <1>2, <2>2, AppendProperties
<1>4. block.kind = "heading" <=> KindAt(index) = "heading"
  <2>1. index \in Nat
    BY HeadingsBefore
  <2> QED BY <1>1, <2>1, KindOfBlock
<1>5. HeadingLines' = IF KindAt(index) = "heading" THEN HeadingLines \cup {index}
                      ELSE HeadingLines
  <2>1. ASSUME NEW h \in HeadingLines' PROVE h \in HeadingLines \/ (block.kind = "heading" /\ h = index)
    <3>1. PICK b \in 1 .. Len(blocks) + 1 : h = blocks'[b].from /\ blocks'[b].kind = "heading"
      BY <1>3, <2>1 DEF HeadingLines
    <3>2. CASE b \in 1 .. Len(blocks)
      BY <1>2, <1>3, <3>1, <3>2 DEF HeadingLines
    <3>3. CASE b = Len(blocks) + 1
      BY <1>1, <1>3, <3>1, <3>3
    <3> QED BY <1>2, <3>1, <3>2, <3>3
  <2>2. ASSUME NEW h \in HeadingLines PROVE h \in HeadingLines'
    <3>1. PICK b \in 1 .. Len(blocks) : h = blocks[b].from /\ blocks[b].kind = "heading"
      BY <1>2, <2>2 DEF HeadingLines
    <3>2. b \in DOMAIN blocks' /\ blocks'[b] = blocks[b]
      BY <1>2, <1>3
    <3> QED BY <3>1, <3>2 DEF HeadingLines
  <2>3. ASSUME block.kind = "heading" PROVE index \in HeadingLines'
    <3>1. Len(blocks) + 1 \in DOMAIN blocks'
      BY <1>2, <1>3
    <3> QED BY <1>1, <1>3, <2>3, <3>1 DEF HeadingLines
  <2>4. CASE KindAt(index) = "heading"
    <3>1. HeadingLines' \subseteq HeadingLines \cup {index}
      BY <2>1
    <3>2. HeadingLines \cup {index} \subseteq HeadingLines'
      BY <1>4, <2>2, <2>3, <2>4
    <3> QED BY <2>4, <3>1, <3>2
  <2>5. CASE KindAt(index) # "heading"
    <3>1. HeadingLines' \subseteq HeadingLines /\ HeadingLines \subseteq HeadingLines'
      BY <1>4, <2>1, <2>2, <2>5
    <3> QED BY <2>5, <3>1
  <2> QED BY <2>4, <2>5
<1>6. /\ HeadingLines \in SUBSET Nat /\ index \in Nat /\ index >= 1 /\ index - 1 \in Nat
      /\ \A h \in HeadingLines : h <= index - 1
  BY HeadingsBefore
<1>7. HeadingLines' \in SUBSET Nat /\ \A h \in HeadingLines' : h <= index
  BY <1>5, <1>6
<1>8. \A k : /\ Above(k) = Over(HeadingLines, doc, k)
             /\ Above(k)' = Over(HeadingLines', doc, k)
  BY <1>0 DEF Above, Over
<1>9. ASSUME NEW k \in Nat, k < index PROVE Above(k)' = Above(k)
  <2>1. Over(HeadingLines \cup {index}, doc, k) = Over(HeadingLines, doc, k)
    BY <1>6, <1>9, OverEarlier
  <2> QED BY <1>5, <1>8, <2>1
<1>10. ASSUME NEW k \in Nat, index <= k PROVE Above(k)' = Over(HeadingLines', doc, index)
  <2>1. Over(HeadingLines', doc, k) = Over(HeadingLines', doc, index)
    BY <1>6, <1>7, <1>10, OverSame
  <2> QED BY <1>8, <2>1
<1>11. Over(HeadingLines', doc, index) =
         IF KindAt(index) = "heading"
         THEN {index} \cup {h \in Above(index - 1) : doc[index].level > doc[h].level}
         ELSE Above(index - 1)
  <2>1. CASE KindAt(index) = "heading"
    <3>1. Over(HeadingLines \cup {index}, doc, index) =
            {index} \cup {h \in Over(HeadingLines, doc, index - 1) :
                            doc[index].level > doc[h].level}
      BY <1>6, OverNew
    <3> QED BY <1>5, <1>8, <2>1, <3>1
  <2>2. CASE KindAt(index) # "heading"
    <3>1. Over(HeadingLines, doc, index) = Over(HeadingLines, doc, index - 1)
      BY <1>6, OverSame
    <3> QED BY <1>5, <1>8, <2>2, <3>1
  <2> QED BY <2>1, <2>2
<1>12. ASSUME NoLevelSkipped' PROVE NoLevelSkipped
  <2>1. ASSUME NEW h \in HeadingLines
        PROVE  {doc[g].level : g \in Above(h)} = 1 .. doc[h].level
    <3>1. h \in HeadingLines' /\ h \in Nat /\ h < index
      BY <1>5, <1>6
    <3>2. Above(h)' = Above(h)
      BY <1>9, <3>1
    <3> QED BY <1>0, <1>12, <3>1, <3>2 DEF NoLevelSkipped
  <2> QED BY <2>1 DEF NoLevelSkipped
<1> QED BY <1>5, <1>9, <1>10, <1>11, <1>12

LEMMA ParseBlockSect == ASSUME Inv, SectInv, ParseBlock PROVE SectInv'
<1> DEFINE block == [kind |-> BlockKind(index), path |-> Path(index), from |-> index,
                     to |-> After(index) - 1, first |-> Upto(doc, index - 1) + 1,
                     last |-> Upto(doc, After(index) - 1)]
<1>0. /\ pc = "blocks" /\ pc' = pc /\ index <= Len(doc) /\ KindAt(index) # "blank"
      /\ blocks' = Append(blocks, block) /\ headings' = Path(index) /\ index' = After(index)
      /\ doc' = doc /\ groups' = groups /\ chunks' = chunks
  BY DEF ParseBlock, inputVars, groupVars, chunkVars
<1>1. /\ block.kind = BlockKind(index) /\ block.from = index /\ block.path = Path(index)
      /\ block.to = After(index) - 1
  OBVIOUS
<1> HIDE DEF block
<1>2. /\ blocks \in Seq(Block) /\ Len(blocks) \in Nat
      /\ headings \in Seq(Position) /\ Len(headings) \in Nat /\ Len(doc) \in Nat
  BY BlocksTyped, NoteTyped, LenProperties DEF Inv, Typed, TypeOK
<1>3. /\ Len(blocks') = Len(blocks) + 1
      /\ \A b \in 1 .. Len(blocks) : blocks'[b] = blocks[b]
      /\ blocks'[Len(blocks) + 1] = block
  BY <1>0, <1>2, AppendProperties
<1>4. /\ index \in Nat /\ index >= 1 /\ index - 1 \in Nat /\ index \in Position
      /\ After(index) \in Nat /\ index < After(index) /\ After(index) <= Len(doc) + 1
  <2>1. After(index) \in index + 1 .. Len(doc) + 1
    BY <1>0, NewBlock
  <2>2. index \in Nat /\ index >= 1
    BY HeadingsBefore DEF SectInv
  <2> QED BY <1>2, <2>1, <2>2 DEF Position
<1>5. block.kind = "heading" <=> KindAt(index) = "heading"
  BY <1>1, <1>4, KindOfBlock
<1>6. \A b \in 1 .. Len(blocks) :
        /\ blocks[b].from \in Nat /\ blocks[b].to \in Nat
        /\ blocks[b].from <= blocks[b].to /\ blocks[b].to < index /\ blocks[b].to <= Len(doc)
        /\ blocks[b].from < index
        /\ blocks[b].kind = "heading" => doc[blocks[b].from].kind = "heading"
  <2>1. ASSUME NEW b \in 1 .. Len(blocks)
        PROVE  blocks[b].from \in Nat /\ blocks[b].to \in Nat
    BY BlocksTyped DEF Inv, Block, Position
  <2> QED BY <1>4, <2>1 DEF SectInv, LinesInv
<1>7. LinesInv'
  <2>1. ASSUME NEW b \in 1 .. Len(blocks')
        PROVE  /\ blocks'[b].from <= blocks'[b].to /\ blocks'[b].to < index'
               /\ blocks'[b].to <= Len(doc')
               /\ blocks'[b].kind = "heading" => doc'[blocks'[b].from].kind = "heading"
    <3>1. CASE b \in 1 .. Len(blocks)
      BY <1>0, <1>3, <1>4, <1>6, <3>1
    <3>2. CASE b = Len(blocks) + 1
      <4>1. blocks'[b] = block
        BY <1>3, <3>2
      <4>2. block.from <= block.to /\ block.to < index' /\ block.to <= Len(doc)
        BY <1>0, <1>1, <1>2, <1>4
      <4> QED BY <1>0, <1>1, <1>5, <4>1, <4>2 DEF KindAt
    <3> QED BY <1>2, <1>3, <3>1, <3>2
  <2>2. ASSUME NEW a \in 1 .. Len(blocks'), NEW b \in 1 .. Len(blocks'), a < b
        PROVE  blocks'[a].to < blocks'[b].from
    <3>1. a \in 1 .. Len(blocks) /\ blocks'[a] = blocks[a]
      BY <1>2, <1>3, <2>2
    <3>2. CASE b \in 1 .. Len(blocks)
      BY <1>3, <2>2, <3>1, <3>2 DEF SectInv, LinesInv
    <3>3. CASE b = Len(blocks) + 1
      BY <1>1, <1>3, <1>6, <3>1, <3>3
    <3> QED BY <1>2, <1>3, <3>2, <3>3
  <2> QED BY <2>1, <2>2 DEF LinesInv
<1>8. OpenInv'
  <2> SUFFICES ASSUME NoLevelSkipped'
               PROVE  /\ Levelled(headings, doc)'
                      /\ Named(headings)' = Above(index - 1)'
                      /\ \A b \in 1 .. Len(blocks') :
                           Named(blocks[b].path)' = Above(blocks[b].from)'
    BY DEF OpenInv
  <2>1. /\ Levelled(headings, doc)
        /\ Named(headings) = Above(index - 1)
        /\ \A b \in 1 .. Len(blocks) : Named(blocks[b].path) = Above(blocks[b].from)
    BY NewHeadings DEF SectInv, OpenInv
  <2> DEFINE over == IF KindAt(index) = "heading"
                     THEN {index} \cup {h \in Above(index - 1) : doc[index].level > doc[h].level}
                     ELSE Above(index - 1)
  <2>2. /\ HeadingLines' = IF KindAt(index) = "heading" THEN HeadingLines \cup {index}
                           ELSE HeadingLines
        /\ \A k \in Nat : k < index => Above(k)' = Above(k)
        /\ \A k \in Nat : index <= k => Above(k)' = over
    BY NewHeadings DEF SectInv
  <2>3. Levelled(Path(index), doc) /\ Named(Path(index)) = over
    <3>1. CASE KindAt(index) # "heading"
      BY <2>1, <3>1 DEF Path
    <3>2. CASE KindAt(index) = "heading"
      <4> DEFINE l == doc[index].level
                 cut == Path(index)
      <4>1. l \in Nat /\ l # 0 /\ l - 1 \in Nat
        <5>2. index \in DOMAIN doc /\ doc[index].level \in 0 .. 6 /\ doc \in Documents
          BY <1>0, <1>4, NoteTyped DEF Inv, Typed
        <5>3. doc[index].level # 0
          BY <3>2, <5>2, ChunkerAssumption DEF KindAt
        <5> QED BY <5>2, <5>3
      <4>2. {doc[g].level : g \in over} = 1 .. l
        <5>1. index \in HeadingLines'
          BY <2>2, <3>2
        <5>2. \A h \in HeadingLines' : {doc'[g].level : g \in Above(h)'} = 1 .. doc'[h].level
          BY DEF NoLevelSkipped
        <5> HIDE DEF over
        <5> QED BY <1>0, <1>4, <2>2, <5>1, <5>2
      <4>3. \A h : h \in over <=> h = index \/ (h \in Named(headings) /\ l > doc[h].level)
        BY <2>1, <3>2
      <4>4. \A m \in 1 .. l : \E g \in over : doc[g].level = m
        BY <4>2
      <4>8. doc[index].level = l /\ Len(headings) \in Nat /\ Levelled(headings, doc)
        BY <1>2, <2>1
      <4> HIDE DEF over, l
      <4>5. l - 1 <= Len(headings)
        <5>1. \A h \in over : h = index \/ h \in Named(headings)
          BY <4>3, Zenon
        <5> QED BY <4>1, <4>4, <4>8, <5>1, LevelsReach
      <4>6. cut = Append(SubSeq(headings, 1, l - 1), index)
        <5>1. Min({l - 1, Len(headings)}) = l - 1
          BY <1>2, <4>1, <4>5, MinOfTwo
        <5> QED BY <3>2, <5>1 DEF Path, l
      <4> HIDE DEF cut
      <4>7. Cuts(cut, headings, index, l)
        BY <1>2, <1>4, <4>1, <4>5, <4>6, CutIs
      <4>9. over = LeftOpen(headings, doc, index, l)
        BY <2>1, <3>2 DEF LeftOpen, over, l
      <4>10. Levelled(cut, doc) /\ Named(cut) = over
        BY <4>1, <4>5, <4>7, <4>8, <4>9, PathCut
      <4> QED BY <4>10 DEF cut
    <3> QED BY <3>1, <3>2
  <2> HIDE DEF over
  <2>4. Levelled(headings, doc)'
    BY <1>0, <2>3 DEF Levelled
  <2>5. Named(headings)' = Above(index - 1)'
    <3>1. index' - 1 \in Nat /\ index <= index' - 1
      BY <1>0, <1>4
    <3>2. \A k : k = index' - 1 => Above(k)' = Above(index - 1)'
      BY DEF Above
    <3>3. Above(index - 1)' = over
      BY <2>2, <3>1, <3>2
    <3>4. Named(headings)' = Named(Path(index))
      BY <1>0 DEF Named
    <3> QED BY <2>3, <3>3, <3>4
  <2>6. ASSUME NEW b \in 1 .. Len(blocks')
        PROVE  Named(blocks[b].path)' = Above(blocks[b].from)'
    <3>0. \A k : k = blocks'[b].from => Above(k)' = Above(blocks[b].from)'
      BY DEF Above
    <3>1. CASE b \in 1 .. Len(blocks)
      <4>1. blocks'[b] = blocks[b] /\ blocks[b].from \in Nat /\ blocks[b].from < index
        BY <1>3, <1>6, <3>1
      <4>2. Above(blocks[b].from)' = Above(blocks[b].from)
        BY <2>2, <3>0, <4>1
      <4>3. Named(blocks[b].path)' = Named(blocks[b].path)
        BY <4>1 DEF Named
      <4> QED BY <2>1, <3>1, <4>2, <4>3
    <3>2. CASE b = Len(blocks) + 1
      <4>1. blocks'[b].from = index /\ blocks'[b].path = Path(index)
        BY <1>1, <1>3, <3>2
      <4>2. Above(blocks[b].from)' = over
        BY <1>4, <2>2, <3>0, <4>1
      <4>3. Named(blocks[b].path)' = Named(Path(index))
        BY <4>1 DEF Named
      <4> QED BY <2>3, <4>2, <4>3
    <3> QED BY <1>2, <1>3, <3>1, <3>2
  <2> QED BY <2>4, <2>5, <2>6
<1>9. SpanInv'
  <2>1. groups = <<>> /\ Len(chunks) <= Len(groups) /\ Len(chunks) \in Nat
    BY <1>0, ChunksTyped DEF Inv, GroupInv, ChunkInv
  <2>2. Len(groups') = 0 /\ Len(chunks') = 0
    BY <1>0, <2>1
  <2> QED BY <1>0, <2>2 DEF SpanInv
<1> QED BY <1>7, <1>8, <1>9 DEF SectInv

(* A section depends on the blocks only.                                   *)
LEMMA SectionSame ==
  ASSUME blocks' = blocks
  PROVE  /\ \A g : Section(groups'[g]) => Section(groups[g])'
         /\ \A k : Section(chunks'[k]) => Section(chunks[k])'
  BY DEF Section, Spans

LEMMA EndBlocksSect == ASSUME Inv, SectInv, EndBlocks PROVE SectInv'
<1>0. /\ pc = "blocks" /\ doc' = doc /\ headings' = headings /\ blocks' = blocks
      /\ index' = index /\ groups' = groups /\ chunks' = chunks /\ current' = current
  BY DEF EndBlocks, inputVars, parseVars, groupVars, chunkVars
<1>1. LinesInv' /\ OpenInv'
  BY <1>0, ParseSame DEF SectInv
<1>2. SpanInv'
  <2>1. current.parts = 0
    BY <1>0 DEF Inv, GroupInv, NoGroup
  <2>2. \A g \in 1 .. Len(groups') : Section(groups[g])'
    BY <1>0, SectionSame DEF SectInv, SpanInv
  <2>3. \A k \in 1 .. Len(chunks') : Section(chunks[k])'
    BY <1>0, SectionSame DEF SectInv, SpanInv
  <2>4. ~ (current'.parts > 0)
    BY <1>0, <2>1
  <2> QED BY <2>2, <2>3, <2>4, Zenon DEF SpanInv
<1> QED BY <1>1, <1>2 DEF SectInv

LEMMA AddPieceSect == ASSUME Inv, SectInv, AddPiece PROVE SectInv'
<1>0. PICK n \in 1 .. Len(blocks) : n = next.block
  BY PieceIs DEF AddPiece
<1> DEFINE block == blocks[n]
<1>1. /\ pc = "groups" /\ pc' = pc /\ next.block <= Len(blocks)
      /\ \/ /\ Closes(block, Piece)
            /\ groups' = Append(groups, current) /\ current' = NewGroup(block, Piece)
         \/ /\ ~ Closes(block, Piece) /\ groups' = groups
            /\ current' = IF current.parts = 0 THEN NewGroup(block, Piece)
                          ELSE Extended(current, block, Piece)
      /\ next' = IF next.token + Len(Piece) <= block.last
                 THEN [next EXCEPT !.token = @ + Len(Piece)]
                 ELSE [block |-> next.block + 1, token |-> block.last + 1]
      /\ doc' = doc /\ headings' = headings /\ blocks' = blocks
      /\ index' = index /\ chunks' = chunks
  BY <1>0 DEF AddPiece, inputVars, parseVars, chunkVars
<1>2. LinesInv' /\ OpenInv'
  BY <1>1, ParseSame DEF SectInv
<1>3. /\ n \in Nat /\ Len(blocks) \in Nat
      /\ current \in Group /\ current.parts \in Nat
      /\ groups \in Seq(Group) /\ Len(groups) \in Nat
  BY <1>0, BlocksTyped, GroupsTyped DEF Inv, Typed, TypeOK
<1>4. next'.block = n \/ next'.block = n + 1
  <2>1. next \in [block : Position, token : Position]
    BY DEF Inv, Typed, TypeOK
  <2> QED BY <1>0, <1>1, <2>1
<1>5. current.parts > 0 =>
        \E a, b \in 1 .. Len(blocks) : Spans(current, a, b) /\ b <= n /\ n <= b + 1
  BY <1>0, <1>1 DEF SectInv, SpanInv
<1>6. ASSUME current' = NewGroup(block, Piece) PROVE Spans(current', n, n)
  <2>1. current'.path = block.path /\ current'.from = block.from /\ current'.to = block.to
    BY <1>6 DEF NewGroup
  <2>2. \A c \in n + 1 .. n : FALSE
    BY <1>3
  <2> QED BY <1>1, <1>3, <2>1, <2>2 DEF Spans
<1>7. \A g \in 1 .. Len(groups) : Section(groups[g])
  BY DEF SectInv, SpanInv
<1> DEFINE Sections == \A g \in 1 .. Len(groups') : Section(groups'[g])
           Spanned == \E a \in 1 .. Len(blocks) : Spans(current', a, n)
<1>8. ASSUME Closes(block, Piece) PROVE Sections /\ Spanned
  <2>1. groups' = Append(groups, current) /\ current' = NewGroup(block, Piece)
    BY <1>1, <1>8
  <2>2. current.parts > 0
    <3>1. current.parts = 0 => Len(current.tokens) = 0
      BY <1>1 DEF Inv, GroupInv, NextInv
    <3>2. Len(Piece) <= config.maximum /\ config.maximum \in Nat /\ Len(Piece) \in Nat
      BY <1>1, PieceIs, RunsAre, ConfigTyped DEF Inv, Typed, TypeOK
    <3> QED BY <1>3, <1>8, <3>1, <3>2 DEF Closes
  <2>3. Section(current)
    BY <1>5, <2>2 DEF Section
  <2>4. /\ Len(groups') = Len(groups) + 1
        /\ \A g \in 1 .. Len(groups) : groups'[g] = groups[g]
        /\ groups'[Len(groups) + 1] = current
    BY <1>3, <2>1, AppendProperties
  <2>5. ASSUME NEW g \in 1 .. Len(groups') PROVE Section(groups'[g])
    <3>1. g \in 1 .. Len(groups) \/ g = Len(groups) + 1
      BY <1>3, <2>4
    <3> QED BY <1>7, <2>3, <2>4, <3>1
  <2>6. Spans(current', n, n)
    BY <1>6, <2>1
  <2> QED BY <2>5, <2>6
<1>9. ASSUME ~ Closes(block, Piece), current.parts = 0 PROVE Sections /\ Spanned
  <2>1. groups' = groups /\ current' = NewGroup(block, Piece)
    BY <1>1, <1>9
  <2>2. Spans(current', n, n)
    BY <1>6, <2>1
  <2> QED BY <1>7, <2>1, <2>2
<1>10. ASSUME ~ Closes(block, Piece), current.parts # 0 PROVE Sections /\ Spanned
  <2>1. groups' = groups /\ current' = Extended(current, block, Piece)
    BY <1>1, <1>10
  <2>2. PICK a \in 1 .. Len(blocks), b \in 1 .. Len(blocks) :
          Spans(current, a, b) /\ b <= n /\ n <= b + 1
    BY <1>3, <1>5, <1>10
  <2>3. block.kind # "heading"
    BY <1>3, <1>10 DEF Closes
  <2>4. current'.path = current.path /\ current'.from = current.from /\ current'.to = block.to
    BY <1>3, <2>1 DEF Extended, Group
  <2>5. ASSUME NEW c \in a + 1 .. n PROVE blocks[c].kind # "heading"
    <3>1. c \in a + 1 .. b \/ c = n
      BY <1>3, <2>2
    <3> QED BY <2>2, <2>3, <3>1 DEF Spans
  <2>6. Spans(current', a, n)
    <3>1. a <= n
      BY <1>3, <2>2 DEF Spans
    <3> QED BY <1>1, <2>2, <2>4, <2>5, <3>1 DEF Spans
  <2> QED BY <1>7, <2>1, <2>6
<1>11. Sections /\ Spanned
  BY <1>8, <1>9, <1>10
<1>12. SpanInv'
  <2>1. PICK a \in 1 .. Len(blocks) : Spans(current', a, n)
    BY <1>11
  <2>2. n \in 1 .. Len(blocks') /\ a \in 1 .. Len(blocks') /\ n <= next'.block
          /\ next'.block <= n + 1
    BY <1>1, <1>3, <1>4
  <2>3. \A k \in 1 .. Len(chunks') : Section(chunks[k])'
    BY <1>1, SectionSame DEF SectInv, SpanInv
  <2>4. \A g \in 1 .. Len(groups') : Section(groups[g])'
    BY <1>1, <1>11, SectionSame
  <2>5. Spans(current, a, n)'
    BY <1>1, <2>1 DEF Spans
  <2>6. \E c, b \in 1 .. Len(blocks') :
          Spans(current, c, b)' /\ b <= next'.block /\ next'.block <= b + 1
    BY <2>2, <2>5, Zenon
  <2> QED BY <2>3, <2>4, <2>6, Zenon DEF SpanInv
<1> QED BY <1>2, <1>12 DEF SectInv

LEMMA EndGroupsSect == ASSUME Inv, SectInv, EndGroups PROVE SectInv'
<1>0. /\ pc = "groups" /\ pc' = "chunks" /\ groups' = Append(groups, current)
      /\ doc' = doc /\ headings' = headings /\ blocks' = blocks
      /\ index' = index /\ chunks' = chunks /\ current' = current
  BY DEF EndGroups, inputVars, parseVars, chunkVars
<1>1. LinesInv' /\ OpenInv'
  BY <1>0, ParseSame DEF SectInv
<1>2. groups \in Seq(Group) /\ Len(groups) \in Nat /\ current \in Group
  BY GroupsTyped DEF Inv, Typed, TypeOK
<1>3. /\ Len(groups') = Len(groups) + 1
      /\ \A g \in 1 .. Len(groups) : groups'[g] = groups[g]
      /\ groups'[Len(groups) + 1] = current
  BY <1>0, <1>2, AppendProperties
<1>4. current.parts > 0
  <2>1. GroupInv'
    BY EndGroupsInv DEF Inv
  <2>2. Len(groups) + 1 \in 1 .. Len(groups')
    BY <1>2, <1>3
  <2> QED BY <1>3, <2>1, <2>2 DEF GroupInv, GroupFits
<1>5. Section(current)
  BY <1>0, <1>4 DEF SectInv, SpanInv, Section
<1>6. ASSUME NEW g \in 1 .. Len(groups') PROVE Section(groups'[g])
  <2>1. g \in 1 .. Len(groups) \/ g = Len(groups) + 1
    BY <1>2, <1>3
  <2> QED BY <1>3, <1>5, <2>1 DEF SectInv, SpanInv
<1>7. SpanInv'
  BY <1>0, <1>6 DEF SectInv, SpanInv, Section, Spans
<1> QED BY <1>1, <1>7 DEF SectInv

LEMMA EmitChunkSect == ASSUME Inv, SectInv, EmitChunk PROVE SectInv'
<1> DEFINE group == groups[Len(chunks) + 1]
           chunk == [path |-> group.path, from |-> group.from, to |-> group.to,
                     overlap |-> Overlap(group.tokens), body |-> group.tokens]
<1>0. /\ pc = "chunks" /\ pc' = pc /\ Len(chunks) < Len(groups)
      /\ chunks' = Append(chunks, chunk)
      /\ doc' = doc /\ headings' = headings /\ blocks' = blocks
      /\ index' = index /\ groups' = groups
  BY DEF EmitChunk, inputVars, parseVars, groupVars
<1>1. LinesInv' /\ OpenInv'
  BY <1>0, ParseSame DEF SectInv
<1>2. chunks \in Seq(Chunk) /\ Len(chunks) \in Nat /\ Len(groups) \in Nat
  BY ChunksTyped, GroupsTyped DEF Inv, Typed, TypeOK
<1>3. Section(chunk)
  <2>1. Len(chunks) + 1 \in 1 .. Len(groups)
    BY <1>0, <1>2
  <2>2. Section(group)
    BY <2>1 DEF SectInv, SpanInv
  <2> QED BY <2>2 DEF Section, Spans
<1> HIDE DEF chunk
<1>4. /\ Len(chunks') = Len(chunks) + 1
      /\ \A k \in 1 .. Len(chunks) : chunks'[k] = chunks[k]
      /\ chunks'[Len(chunks) + 1] = chunk
  BY <1>0, <1>2, AppendProperties
<1>5. ASSUME NEW k \in 1 .. Len(chunks') PROVE Section(chunks'[k])
  <2>1. k \in 1 .. Len(chunks) \/ k = Len(chunks) + 1
    BY <1>2, <1>4
  <2> QED BY <1>3, <1>4, <2>1 DEF SectInv, SpanInv
<1>6. SpanInv'
  <2>1. \A k \in 1 .. Len(chunks') : Section(chunks[k])'
    BY <1>0, <1>5, SectionSame
  <2>2. \A g \in 1 .. Len(groups') : Section(groups[g])'
    BY <1>0, SectionSame DEF SectInv, SpanInv
  <2>3. pc' # "groups"
    BY <1>0
  <2> QED BY <2>1, <2>2, <2>3, Zenon DEF SpanInv
<1> QED BY <1>1, <1>6 DEF SectInv

LEMMA EndChunksSect == ASSUME Inv, SectInv, EndChunks PROVE SectInv'
<1>0. /\ pc = "chunks" /\ pc' = "done" /\ doc' = doc /\ headings' = headings
      /\ blocks' = blocks /\ index' = index /\ groups' = groups /\ chunks' = chunks
  BY DEF EndChunks, inputVars, parseVars, groupVars, chunkVars
<1>1. LinesInv' /\ OpenInv'
  BY <1>0, ParseSame DEF SectInv
<1>2. SpanInv'
  <2>1. \A g \in 1 .. Len(groups') : Section(groups[g])'
    BY <1>0, SectionSame DEF SectInv, SpanInv
  <2>2. \A k \in 1 .. Len(chunks') : Section(chunks[k])'
    BY <1>0, SectionSame DEF SectInv, SpanInv
  <2>3. pc' # "groups"
    BY <1>0
  <2> QED BY <2>1, <2>2, <2>3, Zenon DEF SpanInv
<1> QED BY <1>1, <1>2 DEF SectInv

LEMMA SectAlways == Spec => []SectInv
<1>1. Init => SectInv
  <2> SUFFICES ASSUME Init PROVE SectInv
    OBVIOUS
  <2>1. headings = <<>> /\ blocks = <<>> /\ groups = <<>> /\ chunks = <<>> /\ pc = "blocks"
    BY DEF Init
  <2>2. LinesInv /\ SpanInv
    BY <2>1 DEF LinesInv, SpanInv
  <2>3. Levelled(headings, doc) /\ Named(headings) = {} /\ Above(index - 1) = {}
    BY <2>1 DEF Levelled, Named, Above, HeadingLines
  <2>4. \A b \in 1 .. Len(blocks) : FALSE
    BY <2>1
  <2>5. OpenInv
    BY <2>3, <2>4, Zenon DEF OpenInv
  <2> QED BY <2>2, <2>5 DEF SectInv
<1>2. Inv /\ SectInv /\ [Next]_vars => SectInv'
  <2> SUFFICES ASSUME Inv, SectInv, [Next]_vars PROVE SectInv'
    OBVIOUS
  <2>1. CASE UNCHANGED vars
    <3>1. UNCHANGED <<doc, pc, blocks, index, headings, next, groups, current, chunks>>
      BY <2>1 DEF vars, inputVars, parseVars, groupVars, chunkVars
    <3>2. LinesInv' /\ OpenInv'
      BY <3>1, ParseSame DEF SectInv
    <3>3. SpanInv'
      BY <3>1 DEF SectInv, SpanInv, Section, Spans
    <3> QED BY <3>2, <3>3 DEF SectInv
  <2> QED
    BY <2>1, SkipBlankSect, ParseBlockSect, EndBlocksSect, AddPieceSect, EndGroupsSect,
       EmitChunkSect, EndChunksSect DEF Next
<1> QED BY <1>1, <1>2, InvAlways, PTL DEF Spec

-----------------------------------------------------------------------------
(* The theorems.                                                           *)

(* MarkdownChunker.chunk works on lines, blocks and groups that are where   *)
(* its loops say, for every note.                                          *)
THEOREM ChunkerTypeCorrect == Spec => []TypeOK
<1>1. Inv => TypeOK
  BY DEF Inv, Typed
<1> QED BY <1>1, InvAlways, PTL

(* chunk never exceeds max_tokens, overlap included, for any note and any   *)
(* ChunkerConfig that its own check lets pass; no chunk is empty.          *)
THEOREM ChunksKeepTheLimit == Spec => []LimitKept
<1>1. ASSUME Inv PROVE LimitKept
  <2>1. ASSUME NEW k \in DOMAIN chunks
        PROVE  chunks[k].body # <<>> /\ Len(Content(chunks[k])) <= config.maximum
    <3>1. /\ k \in 1 .. Len(chunks) /\ k \in 1 .. Len(groups)
          /\ chunks[k].overlap \in Seq(Position) /\ chunks[k].body \in Seq(Position)
      <4>1. /\ Len(chunks) \in Nat /\ Len(groups) \in Nat /\ DOMAIN chunks = 1 .. Len(chunks)
            /\ Len(chunks) <= Len(groups)
        BY <1>1, ChunksTyped, GroupsTyped DEF Inv, ChunkInv
      <4>2. k \in 1 .. Len(chunks) /\ k \in 1 .. Len(groups)
        BY <4>1
      <4> QED BY <1>1, <4>2, ChunksTyped DEF Inv
    <3>2. OverlapFits(chunks[k], groups[k], StartOf(k)) /\ Runs(groups[k].tokens, StartOf(k))
      BY <1>1, <3>1 DEF Inv, ChunkInv, GroupInv
    <3>3. chunks[k].body # <<>>
      BY <3>2, RunsAre DEF OverlapFits
    <3>4. Len(Content(chunks[k])) = Len(chunks[k].overlap) + Len(chunks[k].body)
      BY <3>1, ConcatProperties DEF Content
    <3> QED BY <3>2, <3>3, <3>4 DEF OverlapFits
  <2>2. \A k \in DOMAIN groups : Len(groups[k].tokens) > config.target => groups[k].parts = 1
    BY <1>1, GroupsTyped DEF Inv, GroupInv, GroupFits
  <2> QED BY <2>1, <2>2 DEF LimitKept
<1> QED BY <1>1, InvAlways, PTL

(* The chunks are the note: no token is lost, repeated out of place or put  *)
(* out of order, by splitting, grouping or overlap.                        *)
THEOREM ChunksAreTheNote == Spec => []NothingLost
<1>1. ASSUME Inv PROVE NothingLost
  <2>0. Len(chunks) \in Nat /\ Len(groups) \in Nat /\ DOMAIN chunks = 1 .. Len(chunks)
          /\ Len(chunks) <= Len(groups)
    BY <1>1, ChunksTyped, GroupsTyped DEF Inv, ChunkInv
  <2>1. \A k \in 1 .. Len(chunks) : chunks[k].body = groups[k].tokens
    BY <1>1 DEF Inv, ChunkInv, OverlapFits
  <2>2. ASSUME NEW k \in DOMAIN chunks
        PROVE  LET first == IF k = 1 THEN 1 ELSE LastOf(chunks[k - 1].body) + 1 IN
               Content(chunks[k]) =
                 Tokens(first - Len(chunks[k].overlap), LastOf(chunks[k].body))
    <3>1. k \in 1 .. Len(chunks) /\ k \in 1 .. Len(groups) /\ Len(chunks[k].overlap) \in Nat
      BY <1>1, <2>0, ChunksTyped DEF Inv
    <3>2. OverlapFits(chunks[k], groups[k], StartOf(k)) /\ Runs(groups[k].tokens, StartOf(k))
      BY <1>1, <3>1 DEF Inv, ChunkInv, GroupInv
    <3>3. Content(chunks[k]) = Tokens(StartOf(k) - Len(chunks[k].overlap), LastOf(chunks[k].body))
      BY <2>1, <3>1, <3>2, ContentIs
    <3>4. StartOf(k) = IF k = 1 THEN 1 ELSE LastOf(chunks[k - 1].body) + 1
      <4>1. k # 1 => chunks[k - 1].body = groups[k - 1].tokens
        BY <2>0, <2>1, <3>1
      <4> QED BY <4>1 DEF StartOf
    <3> QED BY <3>3, <3>4
  <2>3. ASSUME pc = "done"
        PROVE  Upto(doc, Len(doc)) =
                 IF chunks = <<>> THEN 0 ELSE LastOf(chunks[Len(chunks)].body)
    <3>1. StartOf(Len(groups) + 1) = Upto(doc, Len(doc)) + 1 /\ Len(chunks) = Len(groups)
      BY <1>1, <2>3 DEF Inv, GroupInv, ChunkInv
    <3>2. Upto(doc, Len(doc)) \in Nat
      BY <1>1, NoteTyped DEF Inv, Typed, Upto
    <3>3. CASE chunks = <<>>
      <4>1. StartOf(Len(groups) + 1) = 1
        BY <3>1, <3>3 DEF StartOf
      <4> QED BY <3>1, <3>2, <3>3, <4>1
    <3>4. CASE chunks # <<>>
      <4>1. Len(chunks) \in 1 .. Len(chunks) /\ Len(groups) + 1 # 1
        BY <1>1, <2>0, <3>1, <3>4, EmptySeq DEF Inv, Typed, TypeOK
      <4>2. StartOf(Len(groups) + 1) = LastOf(chunks[Len(chunks)].body) + 1
        BY <2>0, <2>1, <3>1, <4>1 DEF StartOf
      <4>3. LastOf(chunks[Len(chunks)].body) \in Nat
        <5>1. Runs(groups[Len(chunks)].tokens, StartOf(Len(chunks)))
          BY <1>1, <3>1, <4>1 DEF Inv, GroupInv
        <5> QED BY <2>1, <4>1, <5>1, RunsAre
      <4> QED BY <3>1, <3>2, <3>4, <4>2, <4>3
    <3> QED BY <3>3, <3>4
  <2> QED BY <2>2, <2>3 DEF NothingLost
<1> QED BY <1>1, InvAlways, PTL

(* Only a block above max_tokens is split.                                  *)
THEOREM BlocksStayWhole == Spec => []BlocksKept
<1>1. ASSUME Inv PROVE BlocksKept
  <2>1. ASSUME pc = "chunks", NEW b \in DOMAIN blocks,
               blocks[b].last - blocks[b].first < config.maximum
        PROVE  \E g \in DOMAIN groups :
                 groups[g].tokens[1] <= blocks[b].first /\ blocks[b].last <= LastOf(groups[g].tokens)
    <3>1. b \in 1 .. Len(blocks) /\ Small(blocks[b]) /\ DOMAIN groups = 1 .. Len(groups)
      BY <1>1, <2>1, BlocksTyped, GroupsTyped DEF Inv, Small
    <3>2. Grouped(blocks[b])
      BY <1>1, <2>1, <3>1 DEF Inv, KeptInv
    <3> QED BY <3>1, <3>2 DEF Grouped, Within
  <2> QED BY <2>1 DEF BlocksKept
<1> QED BY <1>1, InvAlways, PTL

(* In a note whose headings skip no level a chunk names exactly the headings *)
(* that stand over each of its lines, although _markdown_blocks cuts the    *)
(* path by its length and a group has the path of its first block only.     *)
THEOREM SectionsAreKept == Spec => []SectionsKept
<1>1. ASSUME Inv, SectInv PROVE SectionsKept
  <2> SUFFICES ASSUME NoLevelSkipped, NEW k \in DOMAIN chunks,
                      NEW line \in chunks[k].from .. chunks[k].to
               PROVE  {chunks[k].path[n] : n \in DOMAIN chunks[k].path} = Above(line)
    BY DEF SectionsKept
  <2>1. /\ k \in 1 .. Len(chunks) /\ chunks[k].path \in Seq(Position)
        /\ chunks[k].from \in Nat /\ chunks[k].to \in Nat
    <3>1. k \in 1 .. Len(chunks) /\ chunks[k] \in Chunk
      BY <1>1, ChunksTyped, ElementOfSeq DEF Inv, Typed, TypeOK
    <3> QED BY <3>1 DEF Chunk
  <2>2. PICK a \in 1 .. Len(blocks), b \in 1 .. Len(blocks) : Spans(chunks[k], a, b)
    BY <1>1, <2>1 DEF SectInv, SpanInv, Section
  <2>3. /\ chunks[k].path = blocks[a].path /\ chunks[k].from = blocks[a].from
        /\ chunks[k].to = blocks[b].to /\ a <= b
        /\ \A c \in a + 1 .. b : blocks[c].kind # "heading"
    BY <2>2 DEF Spans
  <2>4. line \in Nat /\ blocks[a].from \in Nat /\ blocks[a].from <= line /\ line <= blocks[b].to
    BY <2>1, <2>3
  <2>5. ASSUME NEW h \in HeadingLines, h <= line PROVE h <= blocks[a].from
    <3>1. PICK c \in 1 .. Len(blocks) : h = blocks[c].from /\ blocks[c].kind = "heading"
      BY <1>1, BlocksTyped DEF HeadingLines, Inv
    <3>2. /\ blocks[c].from \in Nat /\ blocks[c].to \in Nat /\ blocks[b].to \in Nat
          /\ blocks[c].from <= blocks[c].to /\ c \in Nat /\ a \in Nat /\ b \in Nat
      <4>1. blocks[c] \in Block /\ blocks[b] \in Block /\ Len(blocks) \in Nat
        BY <1>1, BlocksTyped DEF Inv
      <4>2. blocks[c].from <= blocks[c].to
        BY <1>1 DEF SectInv, LinesInv
      <4> QED BY <4>1, <4>2 DEF Block, Position
    <3>3. ~ (b < c)
      <4>1. b < c => blocks[b].to < blocks[c].from
        BY <1>1 DEF SectInv, LinesInv
      <4> QED BY <2>4, <2>5, <3>1, <3>2, <4>1
    <3>4. c \notin a + 1 .. b
      BY <2>3, <3>1
    <3>5. c < a \/ c = a
      BY <3>2, <3>3, <3>4
    <3>6. c < a => blocks[c].to < blocks[a].from
      BY <1>1 DEF SectInv, LinesInv
    <3> QED BY <2>4, <3>1, <3>2, <3>5, <3>6
  <2>6. Above(line) = Above(blocks[a].from)
    <3>1. HeadingLines \in SUBSET Nat
      BY <1>1, HeadingsBefore DEF SectInv
    <3>2. Over(HeadingLines, doc, line) = Over(HeadingLines, doc, blocks[a].from)
      BY <2>4, <2>5, <3>1, OverSame
    <3> QED BY <3>2, AboveIsOver
  <2>7. Named(blocks[a].path) = Above(blocks[a].from)
    BY <1>1 DEF SectInv, OpenInv
  <2>8. {chunks[k].path[n] : n \in DOMAIN chunks[k].path} = Named(blocks[a].path)
    <3>1. DOMAIN chunks[k].path = 1 .. Len(chunks[k].path)
      BY <2>1, LenProperties
    <3> QED BY <2>3, <3>1 DEF Named
  <2> QED BY <2>6, <2>7, <2>8
<1> QED BY <1>1, InvAlways, SectAlways, PTL

=============================================================================
