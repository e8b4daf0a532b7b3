------------------------------ MODULE Chunking ------------------------------
(***************************************************************************)
(* From the lines of a Markdown document to its chunks (document_parser.py) *)
(* one block is parsed after the other, then the blocks are grouped into   *)
(* parents and the text of each parent into children.                      *)
(*                                                                         *)
(* A line is its kind, and its text a single token: its number.  Mark      *)
(* stands for the tokens that rendering adds, the '#' of a heading and the *)
(* fences of code.  Other formats give blocks of the same types.           *)
(***************************************************************************)
EXTENDS Integers, Sequences, FiniteSets, SequencesExt, FiniteSetsExt

CONSTANTS
  Documents,     \* sequences of kinds of lines
  Options        \* chunking options; LEGACY has a size and an overlap of its own

Headings == {"h1", "h2", "h3"}
Types == {"HEADING", "CODE", "TABLE", "LIST", "QUOTE", "PARAGRAPH"}
Kinds == Headings \cup {"blank", "fence", "bar", "rule", "item", "quote", "text"}

(* What the theorems assume of the parameters.                             *)
ConstantsAssumption ==
  /\ \A document \in Documents : document \in Seq(Kinds)
  /\ \A o \in Options : /\ o.parent \in Nat /\ o.target \in Nat /\ o.overlap \in Nat
                        /\ o.preserve \in BOOLEAN

Level(kind) == CASE kind = "h1" -> 1 [] kind = "h2" -> 2 [] kind = "h3" -> 3
Mark == 0

VARIABLES
  stage,     \* "start", "parsing", "planned" or "refused"
  lines,     \* the document
  index,     \* the line that is read next
  path,      \* the headings one is under
  blocks,    \* the blocks read so far: type, tokens and path
  options,
  parents, children  \* the plan: token sequences; children with their parent

vars == <<stage, lines, index, path, blocks, options, parents, children>>

NoOptions == [strategy |-> "LEGACY"]

Init ==
  /\ stage = "start" /\ lines = <<>> /\ index = 1 /\ path = <<>>
  /\ blocks = <<>> /\ options = NoOptions /\ parents = <<>> /\ children = <<>>

-----------------------------------------------------------------------------
Open ==
  /\ stage = "start"
  /\ lines' \in Documents
  /\ stage' = "parsing"
  /\ UNCHANGED <<index, path, blocks, options, parents, children>>

Line == lines[index]
Reading == stage = "parsing" /\ index <= Len(lines)

(* The first line from i on that is of none of these kinds.                *)
Beyond(i, kinds) ==
  Min({j \in i..(Len(lines) + 1) : j > Len(lines) \/ lines[j] \notin kinds})

(* The lines that have text, among those before next.                      *)
Texts(from, next) == {j \in from..(next - 1) : lines[j] \notin {"blank", "fence"}}

InOrder(T) ==
  CHOOSE s \in [1..Cardinality(T) -> T] : \A j, k \in 1..Cardinality(T) : j < k => s[j] < s[k]

(* _finalize_blocks drops blocks without text.                             *)
Emit(type, from, next, under) ==
  LET block == [type |-> type, tokens |-> InOrder(Texts(from, next)), path |-> under]
  IN blocks' = IF Texts(from, next) = {} THEN blocks ELSE Append(blocks, block)

Block(type, kinds) ==
  LET next == Beyond(index + 1, kinds)
  IN /\ Emit(type, index, next, path)
     /\ index' = next
     /\ UNCHANGED <<stage, lines, path, options, parents, children>>

Skip ==
  /\ Reading /\ Line = "blank"
  /\ index' = index + 1
  /\ UNCHANGED <<stage, lines, path, blocks, options, parents, children>>

(* heading_levels[level - 1:] = [title]                                    *)
PathWith(level) == Append(SubSeq(path, 1, Min({level - 1, Len(path)})), index)

Heading ==
  /\ Reading /\ Line \in Headings
  /\ path' = PathWith(Level(Line))
  /\ Emit("HEADING", index, index + 1, path')
  /\ index' = index + 1
  /\ UNCHANGED <<stage, lines, options, parents, children>>

(* A fence opens code up to the next fence, or to the end.                 *)
Code ==
  /\ Reading /\ Line = "fence"
  /\ LET close == Min({j \in (index + 1)..(Len(lines) + 1) :
                         j > Len(lines) \/ lines[j] = "fence"})
     IN /\ Emit("CODE", index, close, path)
        /\ index' = Min({close + 1, Len(lines) + 1})
  /\ UNCHANGED <<stage, lines, path, options, parents, children>>

StartsTable ==
  Line \in {"bar", "rule"} /\ index < Len(lines) /\ lines[index + 1] = "rule"

TableBlock == Reading /\ StartsTable /\ Block("TABLE", {"bar", "rule"})

ListBlock == Reading /\ Line = "item" /\ Block("LIST", {"item"})

Quote == Reading /\ Line = "quote" /\ Block("QUOTE", {"quote"})

Paragraph ==
  /\ Reading /\ ~StartsTable /\ Line \in {"bar", "rule", "text"}
  /\ Block("PARAGRAPH", {"bar", "rule", "text"})

-----------------------------------------------------------------------------
Render(b) ==
  CASE b.type = "HEADING" -> <<Mark>> \o b.tokens
    [] b.type = "CODE"    -> <<Mark>> \o b.tokens \o <<Mark>>
    [] OTHER              -> b.tokens

Text(bs) == FlattenSeq([k \in DOMAIN bs |-> Render(bs[k])])

\* Fault: the parts follow each other at a distance of target + overlap.
SplitApart(tokens, target, overlap) ==
  LET step == target + overlap
      last == Min({k \in 0..Len(tokens) : k * step + target >= Len(tokens)})
  IN [k \in 1..(last + 1) |->
        SubSeq(tokens, (k - 1) * step + 1, Min({Len(tokens), (k - 1) * step + target}))]

(* _split_by_tokens: each part begins overlap before the end of the last.  *)
Split(tokens, target, overlap) ==
  LET step == Max({1, target - overlap})
      last == Min({k \in 0..Len(tokens) : k * step + target >= Len(tokens)})
  IN [k \in 1..(last + 1) |->
        SubSeq(tokens, (k - 1) * step + 1, Min({Len(tokens), (k - 1) * step + target}))]

(* _split_parent_groups: a heading after text begins a new section.        *)
Group(acc, b, max) ==
  LET section == b.type = "HEADING" /\ \E k \in DOMAIN acc.current :
                   acc.current[k].type # "HEADING"
      full == Len(Text(acc.current)) + Len(Render(b)) > max
  IN IF acc.current # <<>> /\ (section \/ full)
     THEN [groups |-> Append(acc.groups, acc.current), current |-> <<b>>]
     ELSE [acc EXCEPT !.current = Append(@, b)]

ParentGroups(max) ==
  LET grouped[k \in 0..Len(blocks)] ==
        IF k = 0 THEN [groups |-> <<>>, current |-> <<>>]
        ELSE Group(grouped[k - 1], blocks[k], max)
      end == grouped[Len(blocks)]
  IN Append(end.groups, end.current)

Flush(acc) ==
  IF acc.buffered = <<>> THEN acc
  ELSE [out |-> Append(acc.out, Text(acc.buffered)), buffered |-> <<>>, tokens |-> 0]

(* The end of the last child stands at the beginning of the next one, as a *)
(* block of the same type as the one it comes from.                        *)
FlushKeepingTail(acc, overlap) ==
  LET text == Text(acc.buffered)
      tail == SubSeq(text, Max({1, Len(text) - overlap + 1}), Len(text))
  IN IF overlap = 0 THEN Flush(acc)
     ELSE [Flush(acc) EXCEPT !.buffered = <<[Last(acc.buffered) EXCEPT !.tokens = tail]>>,
                             !.tokens = Len(tail)]

(* A block that would overfill the child closes it.                        *)
MakeRoom(acc, b, o) ==
  IF acc.buffered # <<>> /\ acc.tokens + Len(Render(b)) > o.target
  THEN FlushKeepingTail(acc, o.overlap) ELSE acc

(* _child_groups, one block: headings are left out, and what is atomic or  *)
(* too long has children of its own.                                       *)
ChunkNext(acc, b, o) ==
  LET text   == Render(b)
      atomic == (b.type = "TABLE" \/ b.type = "CODE") /\ o.preserve
      ready  == IF atomic THEN Flush(acc) ELSE MakeRoom(acc, b, o)
  IN IF b.type = "HEADING" THEN acc
     ELSE IF atomic \/ Len(text) > o.target
     THEN [Flush(ready) EXCEPT !.out = @ \o Split(text, o.target, o.overlap)]
     ELSE [ready EXCEPT !.buffered = Append(@, b), !.tokens = @ + Len(text)]

ChildGroups(group, o) ==
  LET chunked[k \in 0..Len(group)] ==
        IF k = 0 THEN [out |-> <<>>, buffered |-> <<>>, tokens |-> 0]
        ELSE ChunkNext(chunked[k - 1], group[k], o)
  IN Flush(chunked[Len(group)]).out

(* split_text: pieces of a fixed size that end, if they can, at the end of *)
(* a block in their second half.                                           *)
PieceEnd(from, length, size, ends) ==
  LET end   == Min({from + size, length + 1})
      marks == {e \in (from + size \div 2)..(end - 1) : e \in ends}
  IN IF end <= length /\ marks # {} THEN Max(marks) + 1 ELSE end

SplitText(text, size, overlap, ends) ==
  LET End(from) == PieceEnd(from, Len(text), size, ends)
      start[n \in 1..Len(text)] ==
        IF n = 1 THEN 1 ELSE Max({End(start[n - 1]) - overlap, start[n - 1] + 1})
      last == Min({n \in 1..Len(text) : End(start[n]) > Len(text)})
  IN [n \in 1..last |-> SubSeq(text, start[n], End(start[n]) - 1)]

(* DocumentChunkingConfigSerializer.validate.                              *)
Admitted(o) == o.overlap < o.target /\ o.target <= o.parent

(* build_chunking_plan; a document without children is refused.            *)
Plan ==
  /\ stage = "parsing" /\ index > Len(lines)
  /\ \E o \in {x \in Options : Admitted(x)} :
       /\ options' = o
       /\ IF blocks = <<>> THEN UNCHANGED <<parents, children>>
          ELSE IF o.strategy = "LEGACY"
          THEN LET ends == {Len(Text(SubSeq(blocks, 1, k))) : k \in DOMAIN blocks}
                   pieces == SplitText(Text(blocks), o.target, o.overlap, ends)
               IN /\ parents' = <<>>
                  /\ children' = [k \in DOMAIN pieces |-> [parent |-> 0, text |-> pieces[k]]]
          ELSE LET groups == ParentGroups(o.parent)
               IN /\ parents' = [k \in DOMAIN groups |-> Text(groups[k])]
                  /\ children' = FlattenSeq([k \in DOMAIN groups |->
                       LET own == ChildGroups(groups[k], o)
                       IN [n \in DOMAIN own |-> [parent |-> k, text |-> own[n]]]])
  /\ stage' = IF children' = <<>> THEN "refused" ELSE "planned"
  /\ UNCHANGED <<lines, index, path, blocks>>

Next ==
  Open \/ Skip \/ Heading \/ Code \/ TableBlock \/ ListBlock \/ Quote \/ Paragraph \/ Plan

Spec == Init /\ [][Next]_vars

-----------------------------------------------------------------------------
Reach(child) == Max(ToSet(child.text) \cup {Mark})

(* Every line of text is in a block and, but for headings, in a child, and *)
(* children are in the order of the document: none that holds text reaches *)
(* less far than an earlier one.                                           *)
NothingIsLost ==
  stage = "planned" =>
    /\ \A i \in DOMAIN lines : lines[i] \notin {"blank", "fence"} =>
         \E k \in DOMAIN blocks :
           /\ i \in ToSet(blocks[k].tokens)
           /\ blocks[k].type # "HEADING" =>
                \E n \in DOMAIN children : i \in ToSet(children[n].text)
    /\ \A m, n \in DOMAIN children :
         m < n /\ Reach(children[n]) # Mark => Reach(children[m]) <= Reach(children[n])

(* A child is no longer than its target and the overlap, with the fences   *)
(* that an overlap taken from code is given once more, and its text is its *)
(* parent's.                                                               *)
ChildrenFit ==
  stage = "planned" => \A n \in DOMAIN children :
    LET child == children[n]
    IN /\ Len(child.text) <= options.target + options.overlap + 2
       /\ child.parent # 0 => ToSet(child.text) \ {Mark} \subseteq ToSet(parents[child.parent])

HeadingLines == {blocks[k].tokens[1] : k \in {j \in DOMAIN blocks : blocks[j].type = "HEADING"}}
LevelAt(h) == Level(lines[h])

(* The headings that a line is under.                                      *)
Enclosing(i) ==
  {h \in HeadingLines :
     h <= i /\ \A g \in HeadingLines : h < g /\ g <= i => LevelAt(g) > LevelAt(h)}

LevelsAreSkipped ==
  \E h \in HeadingLines : LevelAt(h) > 1 /\
    ~ \E g \in HeadingLines : g < h /\ LevelAt(g) = LevelAt(h) - 1
                              /\ \A f \in HeadingLines : g < f /\ f < h => LevelAt(f) > LevelAt(g)

(* In a document that skips no level of headings the path of a block holds *)
(* the headings that the block is under, the outermost first.              *)
PathsNest ==
  ~LevelsAreSkipped => \A k \in DOMAIN blocks :
    /\ ToSet(blocks[k].path) = Enclosing(blocks[k].tokens[1])
    /\ \A m, n \in DOMAIN blocks[k].path : m < n => blocks[k].path[m] < blocks[k].path[n]

(* The chunks are the document: nothing missing, nothing oversized,        *)
(* everything under its headings.                                          *)
ChunksAreSound == NothingIsLost /\ ChildrenFit /\ PathsNest

-----------------------------------------------------------------------------
(* The inductive invariant: what has been read stands in the blocks, in    *)
(* order, and the path is that of the line to be read.                     *)
BlocksAreInOrder ==
  /\ \A k \in DOMAIN blocks :
       /\ blocks[k].tokens # <<>> /\ ToSet(blocks[k].tokens) \subseteq 1..(index - 1)
       /\ \A m, n \in DOMAIN blocks[k].tokens : m < n => blocks[k].tokens[m] < blocks[k].tokens[n]
       /\ blocks[k].type = "HEADING" =>
            Len(blocks[k].tokens) = 1 /\ lines[blocks[k].tokens[1]] \in Headings
  /\ \A j, k \in DOMAIN blocks :
       j < k => \A x \in ToSet(blocks[j].tokens), y \in ToSet(blocks[k].tokens) : x < y

ReadIsKept ==
  \A i \in 1..(index - 1) : lines[i] \notin {"blank", "fence"} =>
    \E k \in DOMAIN blocks : i \in ToSet(blocks[k].tokens)

PathIsThere ==
  ~LevelsAreSkipped =>
    /\ ToSet(path) = Enclosing(index)
    /\ \A m \in DOMAIN path : LevelAt(path[m]) = m
    /\ \A m, n \in DOMAIN path : m < n => path[m] < path[n]

IInv ==
  /\ stage \in {"start", "parsing", "planned", "refused"}
  /\ lines \in Seq(Kinds) /\ index \in 1..(Len(lines) + 1) /\ path \in Seq(Nat)
  /\ blocks \in Seq([type : Types, tokens : Seq(Nat), path : Seq(Nat)])
  /\ stage = "start" => lines = <<>>
  /\ stage \in {"start", "parsing"} => children = <<>>
  /\ BlocksAreInOrder /\ ReadIsKept /\ PathIsThere
  /\ ChunksAreSound
=============================================================================
