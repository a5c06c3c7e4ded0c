------------------------------- MODULE Chunking -------------------------------
(***************************************************************************)
(* How a parsed document becomes passages (services/chunking.py).          *)
(*                                                                         *)
(* A text is a sequence of words, each [id, stop], stop when a sentence    *)
(* ends with it, and Break for a blank line. A word counts for one token   *)
(* and what separates words for none. A block is [kind, path, page, text], *)
(* its path the heading trail and page 0 where the parser tells none. The   *)
(* loops are recursive functions of how many elements they have taken.     *)
(***************************************************************************)
EXTENDS Integers, Sequences, FiniteSets, SequencesExt, Lists

CONSTANTS
  Target,   \* settings.chunk_target_tokens
  Overlap,  \* settings.chunk_overlap_tokens
  Minimum   \* settings.chunk_min_tokens

ASSUME ChunkingAssumption ==
  Target \in Nat \ {0} /\ Overlap \in 0 .. Target /\ Minimum \in 0 .. Target

VARIABLE doc \* the blocks of a document

Break == [id |-> 0, stop |-> TRUE]
Tokens(text) == Cardinality({i \in DOMAIN text : text[i] # Break})

\* Things are collected in a buffer that is put out, when there is something in it.
Empty == [out |-> <<>>, buf |-> <<>>]
Out(s) == IF s.buf = <<>> THEN s.out ELSE Append(s.out, s.buf)
PutOut(s) == [out |-> Out(s), buf |-> <<>>]

\* _SENTENCE_END.split
TakeWord(s, w) ==
  LET t == IF w = Break THEN s ELSE [out |-> s.out, buf |-> Append(s.buf, w)]
  IN IF w.stop THEN PutOut(t) ELSE t

Sentences(text) ==
  LET taken[n \in 0 .. Len(text)] ==
        IF n = 0 THEN Empty ELSE TakeWord(taken[n - 1], text[n])
  IN Out(taken[Len(text)])

\* Greedy filling: what does not fit any more starts the next buffer.
Fill(s, text) ==
  LET t == IF s.buf # <<>> /\ Tokens(s.buf) + Tokens(text) > Target THEN PutOut(s) ELSE s
  IN [out |-> t.out, buf |-> t.buf \o text]

HardSplit(sentence) ==
  LET taken[n \in 0 .. Len(sentence)] ==
        IF n = 0 THEN Empty ELSE Fill(taken[n - 1], <<sentence[n]>>)
  IN Out(taken[Len(sentence)])

\* A sentence longer than the target is cut between words and shares its pieces
\* with no other.
TakeSentence(s, sentence) ==
  IF Tokens(sentence) > Target
  THEN [out |-> Out(s) \o HardSplit(sentence), buf |-> <<>>]
  ELSE Fill(s, sentence)

SplitOversized(text) ==
  LET sentences == Sentences(text)
      taken[n \in 0 .. Len(sentences)] ==
        IF n = 0 THEN Empty ELSE TakeSentence(taken[n - 1], sentences[n])
  IN Out(taken[Len(sentences)])

\* Whole sentences from the end, as many as fit the overlap and always the last.
TailTokens(text) ==
  LET ss == Sentences(text)
      From(k) == FlattenSeq(SubSeq(ss, k, Len(ss)))
      starts == {k \in DOMAIN ss : k = Len(ss) \/ Tokens(From(k)) <= Overlap}
  IN IF Overlap = 0 \/ ss = <<>> THEN <<>> ELSE From(Min(starts))

\* A piece of _pack under construction: what was put out, the buffer, its pages.
NoPieces == [out |-> <<>>, buf |-> <<>>, from |-> 0, to |-> 0]
Piece(s) == [text |-> s.buf, from |-> s.from, to |-> s.to]
Under(s, text) == IF s = <<>> THEN text ELSE s \o <<Break>> \o text

\* The next piece begins with the tail of this one, on its last page.
Flush(s) ==
  [out |-> Append(s.out, Piece(s)), buf |-> TailTokens(s.buf), from |-> s.to, to |-> s.to]

Units(block) ==
  IF Tokens(block.text) <= Target THEN <<[text |-> block.text, page |-> block.page]>>
  ELSE LET texts == SplitOversized(block.text)
       IN [i \in DOMAIN texts |-> [text |-> texts[i], page |-> block.page]]

TakeUnit(s, unit) ==
  LET t == IF s.buf # <<>> /\ Tokens(s.buf) + Tokens(unit.text) > Target THEN Flush(s) ELSE s
  IN [out |-> t.out, buf |-> Under(t.buf, unit.text), to |-> unit.page,
      from |-> IF t.from = 0 THEN unit.page ELSE t.from]

UnitsOf(blocks) == FlattenSeq([i \in DOMAIN blocks |-> Units(blocks[i])])

PackAll(units) ==
  LET taken[n \in 0 .. Len(units)] ==
        IF n = 0 THEN NoPieces ELSE TakeUnit(taken[n - 1], units[n])
      last == taken[Len(units)]
  IN IF last.buf = <<>> THEN last.out ELSE Append(last.out, Piece(last))

Pack(blocks) == PackAll(UnitsOf(blocks))

\* Consecutive blocks with one trail form a group; headings are in the trail and
\* a group of nothing else disappears.
TakeBlock(s, blocks, n) ==
  LET t == IF n > 1 /\ blocks[n].path # blocks[n - 1].path THEN PutOut(s) ELSE s
  IN IF blocks[n].kind = "heading" THEN t ELSE [out |-> t.out, buf |-> Append(t.buf, blocks[n])]

GroupByHeading(blocks) ==
  LET taken[n \in 0 .. Len(blocks)] ==
        IF n = 0 THEN Empty ELSE TakeBlock(taken[n - 1], blocks, n)
  IN Out(taken[Len(blocks)])

ImagesOf(group) == Those(group, {b \in Range(group) : b.kind = "image"})
TextOf(group) == Those(group, {b \in Range(group) : b.kind # "image"})

Draft(piece, path, modality) ==
  [text |-> piece.text, from |-> piece.from, to |-> piece.to, header |-> path,
   modality |-> modality, joined |-> FALSE]

\* The images of a group come before its text.
Drafts(group) ==
  LET images == ImagesOf(group)
      pieces == Pack(TextOf(group))
      path == group[1].path
  IN [i \in DOMAIN images |->
        Draft([text |-> images[i].text, from |-> images[i].page, to |-> images[i].page], path, "image")]
     \o [i \in DOMAIN pieces |-> Draft(pieces[i], path, "text")]

\* Mutant: a small piece joins the last passage whatever its heading.
AddDraftAnywhere(drafts, d) ==
  IF d.modality = "text" /\ Tokens(d.text) < Minimum /\ drafts # <<>>
  THEN [drafts EXCEPT ![Len(drafts)].text = Under(@, d.text),
                      ![Len(drafts)].to = d.to, ![Len(drafts)].joined = TRUE]
  ELSE Append(drafts, d)
\* Mutant: the passage it joins keeps its last page.
AddDraftKeepingPages(drafts, d) ==
  IF d.modality = "text" /\ Tokens(d.text) < Minimum /\ drafts # <<>> /\ Last(drafts).header = d.header
  THEN [drafts EXCEPT ![Len(drafts)].text = Under(@, d.text), ![Len(drafts)].joined = TRUE]
  ELSE Append(drafts, d)
\* A piece too small to stand alone joins the passage before it, an image's too,
\* if that has the same heading. (`joined` is history.)
AddDraft(drafts, d) ==
  IF d.modality = "text" /\ Tokens(d.text) < Minimum /\ drafts # <<>> /\ Last(drafts).header = d.header
  THEN [drafts EXCEPT ![Len(drafts)].text = Under(@, d.text),
                      ![Len(drafts)].to = d.to, ![Len(drafts)].joined = TRUE]
  ELSE Append(drafts, d)

\* The drafts of the groups, in order.
Coming(groups) == FlattenSeq([g \in DOMAIN groups |-> Drafts(groups[g])])

Assemble(coming) ==
  LET taken[n \in 0 .. Len(coming)] ==
        IF n = 0 THEN <<>> ELSE AddDraft(taken[n - 1], coming[n])
  IN taken[Len(coming)]

\* The ordinal of a passage is its place.
ChunkDocument(blocks) == Assemble(Coming(GroupByHeading(blocks)))

-----------------------------------------------------------------------------
(* What the passages of a document promise. *)

Ids(text) == {text[i].id : i \in DOMAIN text} \ {0}
Stands(part, text) ==
  \E i \in 0 .. Len(text) - Len(part) : \A k \in DOMAIN part : text[i + k] = part[k]

\* The documents there can be: a word is in one block, and the pages go up. The parser
\* of PDF tells the page of every block, the others of none (0).
Words == [id : Nat \ {0}, stop : BOOLEAN] \cup {Break}
ParsedBlocks == [kind : {"heading", "image", "paragraph"}, path : STRING, page : Nat,
           text : Seq(Words)]
Follows(page, before) == before <= page /\ (before = 0 => page = 0)
Documents ==
  {blocks \in Seq(ParsedBlocks) : \A i, j \in DOMAIN blocks : i < j =>
     Ids(blocks[i].text) \cap Ids(blocks[j].text) = {} /\ Follows(blocks[j].page, blocks[i].page)}

\* Nothing is lost and no fact is cut: a sentence not longer than the target stands
\* whole, and of a longer one every word, in a passage under its own heading; and no
\* passage holds words from under another heading.
KeptWhole(blocks, drafts) ==
  /\ \A i \in DOMAIN blocks : blocks[i].kind # "heading" =>
       \A s \in Range(Sentences(blocks[i].text)) :
         LET Here(part) == \E d \in Range(drafts) :
               d.header = blocks[i].path /\ Stands(part, d.text)
         IN IF Tokens(s) <= Target THEN Here(s) ELSE \A w \in Range(s) : Here(<<w>>)
  /\ \A d \in Range(drafts), i \in DOMAIN blocks :
       Ids(blocks[i].text) \cap Ids(d.text) # {} => d.header = blocks[i].path

\* A piece of text is never longer than twice the target: the last sentence that is
\* carried over and a unit.
Bounded(blocks) ==
  \A g \in Range(GroupByHeading(blocks)) :
    \A p \in Range(Pack(TextOf(g))) : Tokens(p.text) <= 2 * Target

\* The pages told for a passage include those of the words that are new in it; the
\* words carried over may be from a page before. A text that joined an image's
\* passage is excepted: the image may be from a later page.
PagesCover(blocks, drafts) ==
  \A n \in DOMAIN drafts, i \in DOMAIN blocks :
    LET d == drafts[n]
        carried == IF n = 1 THEN {} ELSE Ids(drafts[n - 1].text)
    IN /\ (Ids(blocks[i].text) \cap Ids(d.text)) \ carried # {}
       /\ ~(d.modality = "image" /\ d.joined)
       => blocks[i].page \in d.from .. d.to

\* Chunking keeps every sentence whole under its own heading, in pieces of at most
\* twice the target, and the pages a citation tells are those the passage's own words
\* are from (services/chunking.py:3-10, 124-184, retrieval.py:42-52).
PassagesKept ==
  /\ KeptWhole(doc, ChunkDocument(doc)) /\ Bounded(doc)
  /\ PagesCover(doc, ChunkDocument(doc))
=============================================================================
