---------------------------- MODULE MCMarkdownCodec ----------------------------
(***************************************************************************)
(* Documents and imports for TLC: pairs and triples of blocks and of lines *)
(* whose texts hold nothing that the renderer escapes.                     *)
(***************************************************************************)
EXTENDS MarkdownCodec

Word == <<Char("word")>>
Plain == <<Run("none", Word)>>
Styled == Plain \o <<Run("bold", Word)>> \o <<Run("code", Word)>>

Text(kind) == TextBlock(kind, Plain)
Within(kind, children) == [NewBlock(kind) EXCEPT !.children = children]
Item(kind, children) == [Text(kind) EXCEPT !.children = children]
Numbered(n) == [Text("numberedListItem") EXCEPT !.n = n]
Check(note) == [Text("checkListItem") EXCEPT !.note = note]
Cell(alignment) == [Text("cell") EXCEPT !.note = alignment]
TwoCells == Within("row", <<Cell("center"), Cell("left")>>)

PlainLine == TextLine("plain", Word)
Fence == [NewLine("fence") EXCEPT !.n = 3]
ItemLine(kind, n, indent) == [TextLine("item", Word) EXCEPT !.kind = kind, !.n = n, !.indent = indent]

KnownBlocks == {
    EmptyParagraph, Text("paragraph"), TextBlock("paragraph", Styled), Text("image"),
    [TextBlock("heading", Styled) EXCEPT !.n = 2], NewBlock("horizontalRule"),
    Within("quote", <<TextBlock("line", Styled), NewBlock("line"), Text("line")>>),
    Within("table", <<TwoCells, TwoCells>>),
    [NewBlock("codeBlock") EXCEPT !.note = "ts",
        !.code = <<PlainLine, Fence, Blank, ItemLine("bulletListItem", 0, 0)>>],
    Text("bulletListItem"), Numbered(0), Numbered(3),
    Item("bulletListItem", <<Item("bulletListItem", <<Numbered(0)>>), Check("checked"), Check("open")>>),
    Check("checked"), [Check("open") EXCEPT !.children = <<Text("bulletListItem")>>]}
KnownDocuments == UNION {[1..k -> KnownBlocks] : k \in 1..2}

KnownLines == {
    Blank, PlainLine, Fence, NewLine("rule"), [TextLine("heading", Word) EXCEPT !.n = 1],
    TextLine("quote", Word), TextLine("image", Word),
    [NewLine("row") EXCEPT !.texts = <<Word, Word>>], [NewLine("align") EXCEPT !.texts = <<<<Char("right")>>>>],
    ItemLine("bulletListItem", 0, 0), ItemLine("numberedListItem", 2, 1)}
KnownImports == UNION {[1..k -> KnownLines] : k \in 1..3}

\* A sentence in parentheses.
NoImports == {}
Parentheses == {<<TextBlock("paragraph", <<Run("none", <<Char("bracket")>> \o Word \o <<Char("bracket")>>)>>)>>}
=============================================================================
