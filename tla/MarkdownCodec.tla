----------------------------- MODULE MarkdownCodec -----------------------------
(***************************************************************************)
(* A document goes from blocks to markdown whenever it is stored, and back *)
(* whenever it is opened.  Lines have the form the parser sees in them,    *)
(* texts are sequences of a few characters that matter.                    *)
(***************************************************************************)
EXTENDS Naturals, Sequences, SequencesExt, Functions

CONSTANTS
    Documents,    \* what editors may hold: sequences of blocks
    Imports,      \* what may be imported: sequences of lines
    MaxRounds     \* bound on how often a document is opened

VARIABLES
    markdown,     \* the draft
    blocks,       \* the editor
    codecAt,      \* "edited", "stored" or "opened"
    rounds

codecVars == <<markdown, blocks, codecAt, rounds>>

(***************************************************************************)
(* Characters, each under the mark it stands in: "word"; "bracket", which  *)
(* stands for one of ( ) [ ]; "backslash".  A mark that was typed and one  *)
(* that was rendered are the same characters.                              *)
(***************************************************************************)
Char(c) == [char |-> c, mark |-> "none"]
Under(text, mark) == [i \in DOMAIN text |-> [text[i] EXCEPT !.mark = mark]]
Space == Char("space")
JoinedBy(texts, separator) ==
    FoldLeft(LAMBDA line, text : IF line = <<>> THEN text ELSE line \o separator \o text,
             <<>>, SelectSeq(texts, LAMBDA text : text # <<>>))

\* escapePlainText and escapeLinkLabel.
Escaped(text) ==
    FlattenSeq([i \in DOMAIN text |->
        IF text[i].char \in {"bracket", "backslash"}
        THEN <<[text[i] EXCEPT !.char = "backslash"], text[i]>> ELSE <<text[i]>>])

\* Content is a sequence of runs, each of one style.
Run(style, text) == [style |-> style, text |-> text]
PlainText(content) == FlattenSeq([i \in DOMAIN content |-> content[i].text])

RenderStyledText(run) ==
    CASE run.style = "none" -> Escaped(run.text)
      [] run.style = "code" -> Under(run.text, "code")
      [] OTHER -> Under(Escaped(run.text), run.style)
RenderInlineContent(content) ==
    FlattenSeq([i \in DOMAIN content |-> RenderStyledText(content[i])])

\* What stands in a mark takes its style and loses the mark.
ParseInlineContent(text) ==
    LET Append1(content, c) ==
            LET plain == <<[c EXCEPT !.mark = "none"]>>
            IN IF content # <<>> /\ Last(content).style = c.mark
               THEN Front(content) \o <<Run(c.mark, Last(content).text \o plain)>>
               ELSE Append(content, Run(c.mark, plain))
    IN FoldLeft(Append1, <<>>, text)

(***************************************************************************)
(* Lines.                                                                  *)
(***************************************************************************)
NewLine(form) == [form |-> form, n |-> 0, indent |-> 0, kind |-> "", note |-> "", texts |-> <<>>]
TextLine(form, text) == [NewLine(form) EXCEPT !.texts = <<text>>]
Blank == NewLine("blank")
TextOf(line) == JoinedBy(line.texts, <<Space>>)
StartsBlock == {"fence", "rule", "heading", "item", "quote", "image", "blank"}
ItemKinds == {"bulletListItem", "numberedListItem", "checkListItem"}

\* A block; the lines of a quote, the rows of a table and the cells of a row
\* are its children.  note is a code's language, a cell's alignment, or whether
\* an item is "checked" or "open".
NewBlock(kind) ==
    [kind |-> kind, n |-> 0, note |-> "", content |-> <<>>, code |-> <<>>, children |-> <<>>]
TextBlock(kind, content) == [NewBlock(kind) EXCEPT !.content = content]
IsItem(block) == block.kind \in ItemKinds

(***************************************************************************)
(* DocumentMarkdownRenderer.                                               *)
(***************************************************************************)
MaxOf(S) == CHOOSE k \in S : \A l \in S : l <= k
ClampHeadingLevel(level) == IF level < 1 THEN 1 ELSE IF level > 6 THEN 6 ELSE level

\* createCodeFence: longer than any run of backticks in the code.
ShortCodeFence(code) == 3  \* three backticks, whatever the code
CreateCodeFence(code) ==
    MaxOf({3} \cup {code[i].n + 1 : i \in {j \in DOMAIN code : code[j].form = "fence"}})

RECURSIVE RenderListItems(_, _)
RenderListItems(items, depth) ==
    LET Number(i) == IF items[i].n # 0 THEN items[i].n
                     ELSE Len(SelectSeq(SubSeq(items, 1, i), LAMBDA b : b.kind = "numberedListItem"))
        Rendered(i) ==
            <<[form |-> "item", n |-> IF items[i].kind = "numberedListItem" THEN Number(i) ELSE 0,
               indent |-> 2 * depth, kind |-> items[i].kind, note |-> items[i].note,
               texts |-> <<RenderInlineContent(items[i].content)>>]>>
            \o RenderListItems(items[i].children, depth + 1)
    IN FlattenSeq([i \in DOMAIN items |-> Rendered(i)])

RenderTable(rows) ==
    LET Row(cells) == [NewLine("row") EXCEPT !.texts = [k \in DOMAIN cells |-> PlainText(cells[k].content)]]
        alignment == [k \in DOMAIN rows[1].children |-> <<Char(rows[1].children[k].note)>>]
    IN <<Row(rows[1].children), [NewLine("align") EXCEPT !.texts = alignment]>>
       \o [i \in 1..(Len(rows) - 1) |-> Row(rows[i + 1].children)]

\* Quotes, cells and code keep their text, not its styles.
RenderBlock(b) ==
    LET text == RenderInlineContent(b.content)
    IN CASE b.kind = "paragraph" -> IF text = <<>> THEN <<>> ELSE <<TextLine("plain", text)>>
         [] b.kind = "heading" -> <<[TextLine("heading", text) EXCEPT !.n = ClampHeadingLevel(b.n)]>>
         [] b.kind = "quote" ->
              [i \in DOMAIN b.children |-> TextLine("quote", PlainText(b.children[i].content))]
         [] b.kind = "codeBlock" ->
              LET fence == [NewLine("fence") EXCEPT !.n = CreateCodeFence(b.code)]
              IN <<[fence EXCEPT !.kind = b.note]>> \o b.code \o <<fence>>
         [] b.kind = "image" -> <<TextLine("image", text)>>
         [] b.kind = "table" -> RenderTable(b.children)
         [] b.kind = "horizontalRule" -> <<NewLine("rule")>>

\* Neighbours of one kind of list are one chunk; chunks that are not empty are
\* set apart by a blank line.
Chunks(doc) ==
    LET Add(chunks, b) ==
            IF chunks # <<>> /\ IsItem(b) /\ Last(Last(chunks)).kind = b.kind
            THEN Front(chunks) \o <<Append(Last(chunks), b)>> ELSE Append(chunks, <<b>>)
    IN FoldLeft(Add, <<>>, doc)
RenderChunk(chunk) == IF IsItem(chunk[1]) THEN RenderListItems(chunk, 0) ELSE RenderBlock(chunk[1])
Render(doc) ==
    LET chunks == Chunks(doc)
    IN JoinedBy([i \in DOMAIN chunks |-> RenderChunk(chunks[i])], <<Blank>>)

(***************************************************************************)
(* DocumentMarkdownParser.                                                 *)
(***************************************************************************)
\* The lines before the first of the places in stops.
Prefix(lines, stops) ==
    IF stops = {} THEN lines ELSE SubSeq(lines, 1, (CHOOSE i \in stops : \A j \in stops : i <= j) - 1)
After(lines, n) == SubSeq(lines, n + 1, Len(lines))

\* collectListContinuation: countIndent counts the characters of the whole line,
\* so a line that is not blank and no item goes on with the item before it,
\* however little it is indented.
ListItems(lines) ==
    LET Add(items, line) ==
            IF line.form = "item" THEN Append(items, line)
            ELSE Front(items) \o <<[Last(items) EXCEPT !.texts = Append(@, TextOf(line))]>>
    IN FoldLeft(Add, <<>>, lines)

\* The stack of parseList: an item is a child of the last one before it that is
\* indented less.
RECURSIVE Forest(_)
Forest(items) ==
    IF items = <<>> THEN <<>>
    ELSE LET first == items[1]
             rest == Tail(items)
             below == Prefix(rest, {i \in DOMAIN rest : rest[i].indent <= first.indent})
         IN <<[TextBlock(first.kind, ParseInlineContent(TextOf(first))) EXCEPT
                  !.n = first.n, !.note = first.note, !.children = Forest(below)]>>
            \o Forest(After(items, 1 + Len(below)))

\* A row as long as the longest; what has no alignment is aligned left.
ParseTable(rows, alignments) ==
    LET columns == MaxOf({Len(rows[i].texts) : i \in DOMAIN rows})
        Cell(cells, k) ==
            [TextBlock("cell", IF k \in DOMAIN cells THEN ParseInlineContent(cells[k]) ELSE <<>>) EXCEPT
                !.note = IF k \in DOMAIN alignments THEN alignments[k][1].char ELSE "left"]
        ParsedRow(cells) == [NewBlock("row") EXCEPT !.children = [k \in 1..columns |-> Cell(cells, k)]]
    IN [NewBlock("table") EXCEPT !.children = [i \in DOMAIN rows |-> ParsedRow(rows[i].texts)]]

\* The text of a code block is parsed like any other.
ParseCode(lines) ==
    [i \in DOMAIN lines |->
        [lines[i] EXCEPT !.texts = [k \in DOMAIN @ |-> PlainText(ParseInlineContent(@[k]))]]]

\* parseNextBlock: the blocks of the first lines, and how many those are.
NextBlock(lines) ==
    LET first == lines[1]
        Content(text) == ParseInlineContent(text)
        Taking(n, b) == [blocks |-> <<b>>, taken |-> n]
    IN CASE first.form = "fence" ->
              LET rest == Tail(lines)
                  code == Prefix(rest, {i \in DOMAIN rest :
                              rest[i].form = "fence" /\ rest[i].n >= first.n /\ rest[i].kind = ""})
                  closed == Len(code) + 1 < Len(lines)
              IN Taking(Len(code) + (IF closed THEN 2 ELSE 1),
                        [NewBlock("codeBlock") EXCEPT !.note = first.kind, !.code = ParseCode(code)])
         [] first.form = "rule" -> Taking(1, NewBlock("horizontalRule"))
         [] first.form = "heading" ->
              Taking(1, [TextBlock("heading", Content(TextOf(first))) EXCEPT !.n = first.n])
         [] first.form = "item" ->
              LET list == Prefix(lines, {i \in DOMAIN lines : lines[i].form = "blank"})
              IN [blocks |-> Forest(ListItems(list)), taken |-> Len(list)]
         [] first.form = "quote" ->
              LET quote == Prefix(lines, {i \in DOMAIN lines : lines[i].form # "quote"})
                  inside == [i \in DOMAIN quote |-> TextBlock("line", Content(TextOf(quote[i])))]
              IN Taking(Len(quote), [NewBlock("quote") EXCEPT !.children = inside])
         [] first.form = "row" /\ Len(lines) > 1 /\ lines[2].form = "align" ->
              LET below == After(lines, 2)
                  body == Prefix(below, {i \in DOMAIN below : below[i].form \notin {"row", "align"}})
              IN Taking(2 + Len(body), ParseTable(<<first>> \o body, lines[2].texts))
         [] first.form = "image" -> Taking(1, TextBlock("image", <<Run("none", TextOf(first))>>))
         [] OTHER ->
              LET text == Prefix(lines, {i \in DOMAIN lines : lines[i].form \in StartsBlock})
              IN Taking(Len(text), TextBlock("paragraph",
                    Content(JoinedBy([i \in DOMAIN text |-> TextOf(text[i])], <<Space>>))))

RECURSIVE ParseBlocks(_)
ParseBlocks(lines) ==
    IF lines = <<>> THEN <<>>
    ELSE IF lines[1].form = "blank" THEN ParseBlocks(Tail(lines))
    ELSE LET next == NextBlock(lines) IN next.blocks \o ParseBlocks(After(lines, next.taken))
EmptyParagraph == NewBlock("paragraph")
Parse(lines) == IF ParseBlocks(lines) = <<>> THEN <<EmptyParagraph>> ELSE ParseBlocks(lines)

(***************************************************************************)
(* A document is stored after a change (saveContent) and opened later      *)
(* (loadContent); or it was imported.                                      *)
(***************************************************************************)
CodecInit ==
    /\ rounds = 0
    /\ \/ codecAt = "edited" /\ blocks \in Documents /\ markdown = <<>>
       \/ codecAt = "stored" /\ markdown \in Imports /\ blocks = <<>>

StoreContent ==
    /\ codecAt \in {"edited", "opened"}
    /\ markdown' = Render(blocks)
    /\ codecAt' = "stored"
    /\ UNCHANGED <<blocks, rounds>>
OpenContent ==
    /\ codecAt = "stored" /\ rounds < MaxRounds
    /\ blocks' = Parse(markdown)
    /\ codecAt' = "opened" /\ rounds' = rounds + 1
    /\ UNCHANGED markdown

CodecNext == StoreContent \/ OpenContent
CodecSpec == CodecInit /\ [][CodecNext]_codecVars

(***************************************************************************)
(* Properties.                                                             *)
(***************************************************************************)
\* What a reader sees of a document: its blocks, without empty paragraphs, and
\* without the styles the renderer drops and the numbers it fills in.
RECURSIVE Outline(_)
Outline(doc) ==
    LET seen == SelectSeq(doc, LAMBDA b : b.kind # "paragraph" \/ b.content # <<>>)
        Content(b) == IF b.kind \in {"line", "cell"} THEN <<Run("none", PlainText(b.content))>> ELSE b.content
    IN [i \in DOMAIN seen |->
          [kind |-> seen[i].kind, note |-> seen[i].note, code |-> seen[i].code, content |-> Content(seen[i]),
           children |-> Outline(seen[i].children)]]

\* docs/MARKDOWN_EDITOR.md:101: what is stored opens as it was, and an opened
\* document that nobody has edited is stored as it was.
RoundTrip ==
    [][/\ codecAt = "stored" /\ blocks # <<>> => Outline(blocks') = Outline(blocks)
       /\ codecAt = "opened" /\ rounds > 1 => markdown' = markdown]_codecVars
=============================================================================
