--------------------------------- MODULE Builder ---------------------------------
(***************************************************************************)
(* A template between source text and builder (template_builder.py,        *)
(* template_parser.py, routen/vorlagen.py).                                *)
(*                                                                         *)
(* The builder keeps a template as a list of blocks and renders the HTML   *)
(* from it.  Source written by hand is read back into blocks: each cell    *)
(* goes through a row of recognisers, what none of them knows stays free   *)
(* text, and when the words that come out differ the template is one free  *)
(* text as a whole.  Jinja conditions are no HTML: the reader has to carry *)
(* them over by itself, and the comparison of the words does not see them. *)
(***************************************************************************)
EXTENDS Integers, Sequences, FiniteSets, SequencesExt

CONSTANTS MaxRow      \* bound on the rows the editor puts into the source

\* Fields of a mailbox that may be empty; "name" never is, "own" is a custom one.
Field == {"phone", "street", "place", "country", "own"}

VARIABLES
    html,       \* the file: its rows
    blocks      \* the builder's data beside it, <<>> when none or older

builderVars == <<html, blocks>>

(***************************************************************************)
(* HTML.  A cell shows a word of its own, the values of fields, or both,   *)
(* perhaps under a condition written inside; a row may stand under one.    *)
(***************************************************************************)
It(look, word, names, when) == [look |-> look, word |-> word, names |-> names, when |-> when]

Row(cond, cells) == [cond |-> cond, framed |-> FALSE, cells |-> cells]

Opaque == {"inset", "columns", "page"}       \* cells with tables in them

\* The rows in a cell, and all rows of a file without their nesting.
Below(c) == CASE c.look \in {"inset", "page"} -> c.rows
              [] c.look = "columns" -> c.left \o c.right
              [] OTHER -> <<>>

Inner(r) == FlattenSeq([k \in DOMAIN r.cells |-> Below(r.cells[k])])

Flat(h) == FlattenSeq([k \in DOMAIN h |->
             IF \E c \in ToSet(h[k].cells) : c.look \in Opaque THEN Inner(h[k]) ELSE <<h[k]>>])

\* A condition: one of these fields is filled.
Under(cond, P) == cond = {} \/ cond \cap P # {}

\* What one cell shows a recipient whose mailbox has the fields P; a label
\* whose field is empty counts as nothing.
Shown(i, P) ==
    IF \/ \E c \in i.when : ~ Under(c, P)
       \/ i.look \in {"placeholder", "anchor", "labelled"} /\ i.names \cap (P \cup {"name"}) = {}
    THEN <<>>
    ELSE (IF i.word = "none" THEN <<>> ELSE <<<<i.look = "image", {i.word}>>>>)
         \o (IF i.names \cap (P \cup {"name"}) = {} THEN <<>>
             ELSE <<<<FALSE, i.names \cap (P \cup {"name"})>>>>)

Cells(r, P) == IF ~ Under(r.cond, P) THEN <<>>
               ELSE FlattenSeq([k \in DOMAIN r.cells |-> Shown(r.cells[k], P)])

Nested(r, P) == IF ~ Under(r.cond, P) THEN <<>>
                ELSE FlattenSeq([k \in DOMAIN Inner(r) |-> Cells(Inner(r)[k], P)])

\* The signature this recipient reads, line by line.
Seen(h, P) == FlattenSeq([k \in DOMAIN h |->
                IF \E c \in ToSet(h[k].cells) : c.look \in Opaque
                THEN Nested(h[k], P) ELSE Cells(h[k], P)])

\* _sichtbarer_text: words and placeholders, whatever the conditions; no pictures.
CellsOf(rows) == FlattenSeq([k \in DOMAIN rows |-> rows[k].cells])

VisibleText(h) ==
    LET c == CellsOf(Flat(h))
        t == FlattenSeq([k \in DOMAIN c |->
               (IF c[k].word = "none" \/ c[k].look = "image" THEN <<>> ELSE <<{c[k].word}>>)
               \o (IF c[k].names = {} THEN <<>> ELSE <<c[k].names>>)])
    IN  [x \in ToSet(t) |-> Cardinality({k \in DOMAIN t : t[k] = x})]

LosesText(before, after) == VisibleText(before) # VisibleText(after)

(***************************************************************************)
(* The builder                                                             *)
(***************************************************************************)
Block(type, item) == [type |-> type, item |-> item]

\* _wrap_cond: a field that may be empty takes its row with it.
WrapCond(item) == Row(item.names \ {"name"}, <<[item EXCEPT !.when = {}]>>)

\* _anschrift_zeilen: each line under its own condition, or one line of them all.
AddressLines(b) ==
    IF b.item.look = "one_line" THEN <<WrapCond([b.item EXCEPT !.look = "expr"])>>
    ELSE <<WrapCond(It("placeholder", "none", {"street"}, {})),
           WrapCond(It("expr", "none", {"place"}, {}))>>
         \o (IF "country" \in b.item.names
             THEN <<WrapCond(It("placeholder", "none", {"country"}, {}))>> ELSE <<>>)

\* _resolve_var: a field the renderer does not know drops the block.
Unresolved == {"lost"}

RenderLeaf(b) ==
    CASE b.type = "address" -> AddressLines(b)
      [] b.type \in {"field", "contact"} ->
           IF b.item.names \subseteq Unresolved THEN <<>> ELSE <<WrapCond(b.item)>>
      [] OTHER -> <<Row({}, <<b.item>>)>>

RenderAll(bs) == FlattenSeq([k \in DOMAIN bs |-> RenderLeaf(bs[k])])

\* _box and _two_col: tables within one cell; an empty box leaves nothing.
RenderBlock(b) ==
    CASE b.type = "box" ->
           IF RenderAll(b.inner) = <<>> THEN <<>>
           ELSE <<Row({}, <<[look |-> "inset", rows |-> RenderAll(b.inner)]>>)>>
      [] b.type = "two_col" ->
           <<Row({}, <<[look |-> "columns", left |-> RenderAll(b.left),
                        right |-> RenderAll(b.right)]>>)>>
      [] OTHER -> RenderLeaf(b)

RenderHtml(bs) == FlattenSeq([k \in DOMAIN bs |-> RenderBlock(bs[k])])

(***************************************************************************)
(* The reader                                                              *)
(***************************************************************************)
\* _als_link_block reads what stands before the link as a label: half a
\* condition too, and then the template does not parse any more.  _als_feld
\* forgets that a field is a custom one.  _als_logo takes the picture.
Recognised(i) ==
    CASE i.look \in {"anchor", "labelled", "badge"} /\ i.when # {} -> Block("half", i)
      [] i.look \in {"anchor", "labelled"} /\ i.when = {} ->
           Block("contact", [i EXCEPT !.look = "anchor",
                                      !.word = IF i.look = "labelled" THEN "none" ELSE @])
      [] i.look = "placeholder" -> Block("field", [i EXCEPT !.when = {},
                                   !.names = IF @ = {"own"} THEN {"lost"} ELSE @])
      [] i.look = "image" -> Block("logo", [i EXCEPT !.when = {}])
      [] i.look = "badge" /\ i.when = {} -> Block("badge", i)
      [] i.look \in {"gap", "rule"} -> Block("spacer", i)

Recognisable == {"anchor", "labelled", "placeholder", "image", "badge", "gap", "rule"}

\* Mutant: a condition around a row is not kept.
FreetextBare(i, cond) == Block("freetext", i)

\* data-wenn: free text takes the condition of its row along.
Freetext(i, cond) == Block("freetext", [i EXCEPT !.when = @ \cup ({cond} \ {{}})])

\* Words, bold or linked ones too, become a text block unless Jinja is in them.
FromInline(i) ==
    IF i.look \in Recognisable THEN Recognised(i)
    ELSE IF i.look \in {"words", "marked"} /\ i.when = {} THEN Block("text", i)
    ELSE Freetext(i, {})

\* _als_kasten_direkt: a framed cell nothing else knows is a box around its text.
FromFrame(i) == [type |-> "box", inner |-> <<FromInline(i)>>]

\* _block_aus_zelle: recognisers first, a frame last, then text or free text.
FromCell(r) ==
    LET i == r.cells[1] IN
    CASE i.look \in Recognisable -> Recognised(i)
      [] i.look \notin Recognisable /\ r.framed -> FromFrame(i)
      [] i.look \in {"words", "marked"} /\ i.when = {} /\ ~ r.framed -> Block("text", i)
      [] OTHER -> Freetext(i, r.cond)

IsField(bs, k, f) == k \in DOMAIN bs /\ bs[k].type = "field" /\ bs[k].item.names = {f}

IsExpr(b, names) == b.type = "freetext" /\ b.item.look = "expr" /\ names \subseteq b.item.names

AddressBlock(look, names) == Block("address", It(look, "none", names, {}))

\* _anschrift_verschmelzen: the lines of an address are one block again.
Merged(bs) ==
    LET one == [k \in DOMAIN bs |->
                  IF IsExpr(bs[k], {"street", "place"})
                  THEN AddressBlock("one_line", bs[k].item.names) ELSE bs[k]]
        At == {k \in DOMAIN one : /\ IsField(one, k, "street")
                                  /\ k + 1 \in DOMAIN one /\ IsExpr(one[k + 1], {"place"})}
    IN  IF At = {} THEN one
        ELSE LET k == CHOOSE k \in At : TRUE
                 land == IsField(one, k + 2, "country")
             IN  SubSeq(one, 1, k - 1)
                 \o <<AddressBlock("lines", {"street", "place"} \cup (IF land THEN {"country"} ELSE {}))>>
                 \o SubSeq(one, IF land THEN k + 3 ELSE k + 2, Len(one))

FromInner(rows) == Merged([k \in DOMAIN rows |-> FromCell(rows[k])])

\* A whole template in a cell: with one link in it, it passes for that link.
Links(cells) == {k \in DOMAIN cells : cells[k].look \in {"anchor", "labelled"}}

FromPage(c) ==
    LET cells == CellsOf(c.rows) IN
    IF Cardinality(Links(cells)) = 1
    THEN Block("contact", It("anchor", "none", cells[CHOOSE k \in Links(cells) : TRUE].names, {}))
    ELSE Block("freetext", c)

\* _zweispalter_aus_zeile, or a row of more cells as it is; its condition is gone.
FromCells(r) ==
    IF Len(r.cells) = 2
    THEN [type |-> "two_col", left |-> <<FromInline(r.cells[1])>>,
          right |-> <<FromInline(r.cells[2])>>]
    ELSE Block("freetext", [look |-> "page",
           rows |-> [k \in DOMAIN r.cells |-> Row({}, <<r.cells[k]>>)]])

\* _als_kasten: a box of the builder.
FromBox(c) == [type |-> "box", inner |-> FromInner(c.rows)]

\* _als_zweispalter_in_zelle: the builder's own two columns.
FromColumns(c) ==
    [type |-> "two_col", left |-> FromInner(c.left), right |-> FromInner(c.right)]

FromRow(r) ==
    LET c == r.cells[1] IN
    CASE Len(r.cells) > 1 -> FromCells(r)
      [] Len(r.cells) = 1 /\ c.look = "inset" -> FromBox(c)
      [] Len(r.cells) = 1 /\ c.look = "columns" -> FromColumns(c)
      [] Len(r.cells) = 1 /\ c.look = "page" -> FromPage(c)
      [] OTHER -> FromCell(r)

Page(h) == [look |-> "page", rows |-> Flat(h)]

\* parse_html: when the words differ, everything is one free text.
ParseHtml(h) ==
    LET bs == Merged([k \in DOMAIN h |-> FromRow(h[k])])
    IN  IF LosesText(h, RenderHtml(bs)) THEN <<Block("freetext", Page(h))>> ELSE bs

(***************************************************************************)
(* The editor                                                              *)
(***************************************************************************)
\* Rows people write, and the ones the builder renders.
Conds(N) == {{}} \cup {N}
Whens == {{}, {{"phone"}}}
PlainItems == {It("words", "w", {}, W) : W \in Whens}
         \cup {It("markup", "w", N, {}) : N \in {{}, {"phone"}}}
         \cup {It("placeholder", w, {n}, {}) : w \in {"none", "t"},
                                               n \in {"name", "phone", "street", "own"}}
Others == {It("marked", "w", {}, {}), It("placeholder", "t", {"phone"}, {{"phone"}}),
           It("placeholder", "none", {"country"}, {}),
           It("expr", "none", {"place"}, {}), It("expr", "none", {"street", "place"}, {}),
           It("gap", "none", {}, {}), It("rule", "none", {}, {}), It("badge", "w", {}, {})}
          \cup {It("image", "w", {}, W) : W \in Whens}
          \cup {It("anchor", w, {"phone"}, W) : w \in {"none", "t"}, W \in Whens}
          \cup {It("labelled", "w", {"phone"}, {})}

Leaves == PlainItems \cup Others

LeafRows == {Row(C, <<i>>) : C \in Conds({"phone"}), i \in Leaves}
            \cup {WrapCond(i) : i \in {j \in Leaves : j.names # {}}}
            \cup {[Row(C, <<i>>) EXCEPT !.framed = TRUE] : C \in Conds({"phone"}),
                    i \in {It("words", "w", {}, {}), It("markup", "w", {"phone"}, {})}}

SomeCells == {It("words", "w", {}, {}), It("placeholder", "none", {"phone"}, {}),
              It("anchor", "none", {"phone"}, {})}

SourceRows ==
    LeafRows
    \cup {Row(C, <<i, j>>) : C \in Conds({"phone"}), i \in SomeCells, j \in SomeCells}
    \cup {Row(C, <<i, j, It("words", "w", {}, {})>>) :
            C \in Conds({"phone"}), i \in SomeCells, j \in SomeCells}

BuilderInit == html = <<>> /\ blocks = <<>>

\* template_save: the source as typed; the builder's data beside it are older
\* now, and template_editor has the editor read the source again.
SaveHtml(h) == html' = h /\ blocks' = <<>>

SourceEdit ==
    \/ /\ Len(Flat(html)) < MaxRow
       /\ \E r \in SourceRows : SaveHtml(Append(html, r))
    \/ (html # <<>> /\ SaveHtml(html))

Half(b) == CASE b.type = "box" -> \E c \in ToSet(b.inner) : c.type = "half"
             [] b.type = "two_col" -> \E c \in ToSet(b.left \o b.right) : c.type = "half"
             [] OTHER -> b.type = "half"

\* api_save_template_meta: no blocks or a template Jinja refuses is not saved.
SaveMeta(bs) ==
    /\ bs # <<>> /\ ~ \E b \in ToSet(bs) : Half(b)
    /\ blocks' = bs /\ html' = RenderHtml(bs)

\* The blocks a person puts together.
NewBlocks ==
    {Block("text", i) : i \in {It("words", "w", {}, {}), It("marked", "w", {}, {})}}
    \cup {Block("field", It("placeholder", "t", {n}, {})) : n \in {"name", "phone", "own"}}
    \cup {Block("contact", It(l, "t", {"phone"}, {})) : l \in {"anchor", "labelled"}}
    \cup {Block("freetext", It("markup", "w", {"phone"}, W)) : W \in Whens}
    \cup {AddressBlock("lines", {"street", "place"}), AddressBlock("lines", {"street", "place", "country"}),
          AddressBlock("one_line", {"street", "place", "country"})}
    \cup {Block("logo", It("image", "w", {}, {})), Block("badge", It("badge", "w", {}, {}))}

Compound == {[type |-> "box", inner |-> <<b>>] : b \in NewBlocks}
            \cup {[type |-> "two_col", left |-> <<b>>, right |-> <<c>>] :
                    b \in NewBlocks, c \in {Block("text", It("words", "w", {}, {})),
                                            Block("field", It("placeholder", "t", {"phone"}, {}))}}

BuilderEdit ==
    /\ html = <<>> \/ blocks # <<>>
    /\ Len(Flat(html)) < MaxRow
    /\ \E b \in NewBlocks \cup Compound : SaveMeta(Append(blocks, b))

\* api_parse_template and the save that makes the proposal binding.
Convert ==
    /\ html # <<>> /\ blocks = <<>>
    /\ SaveMeta(ParseHtml(html))

BuilderNext == SourceEdit \/ BuilderEdit \/ Convert

BuilderSpec == BuilderInit /\ [][BuilderNext]_builderVars

(***************************************************************************)
(* Properties                                                              *)
(***************************************************************************)
Filled == Field \cup {"name"} \cup Unresolved
Look == {"words", "marked", "markup", "placeholder", "expr", "anchor", "labelled",
         "image", "badge", "gap", "rule", "lines", "one_line"}
Item == [look : Look, word : {"none", "w", "t"}, names : SUBSET Filled, when : SUBSET SUBSET Filled]

\* Rows of items; the ones in a box or a column have no frame of their own.
LeafRow == [cond : SUBSET Filled, framed : BOOLEAN, cells : Seq(Item) \ {<<>>}]
PlainRow == [cond : SUBSET Filled, framed : {FALSE}, cells : Seq(Item) \ {<<>>}]

\* A cell with tables fills its row, and none of them has such cells.
PageCell == [look : {"page"}, rows : Seq(LeafRow)]
Nest == [look : {"inset"}, rows : Seq(PlainRow)] \cup PageCell
        \cup [look : {"columns"}, left : Seq(PlainRow), right : Seq(PlainRow)]
NestRow == {r \in [cond : {{}}, framed : {FALSE}, cells : Seq(Nest)] : Len(r.cells) = 1}
HtmlRow == LeafRow \cup NestRow

LeafBlock == [type : {"text", "field", "contact", "freetext", "address", "logo", "badge",
                      "spacer", "half"}, item : Item]
AnyBlock == LeafBlock \cup [type : {"freetext"}, item : PageCell]
            \cup [type : {"box"}, inner : Seq(LeafBlock)]
            \cup [type : {"two_col"}, left : Seq(LeafBlock), right : Seq(LeafBlock)]

(* However often a template goes through the reader and the builder, its   *)
(* tables stand in tables only one deep; and a file with blocks beside it  *)
(* is what they render.                                                    *)
BuilderTypeOK ==
    /\ html \in Seq(HtmlRow)
    /\ blocks \in Seq(AnyBlock)
    /\ blocks # <<>> => html = RenderHtml(blocks)

\* A condition over something its block does not put under it again: words,
\* a picture or a frame, several cells, cells with tables.
Unguarded(r) ==
    \/ Len(r.cells) > 1 /\ r.cond # {}
    \/ \E i \in ToSet(r.cells) :
         /\ i.look \notin Opaque
         /\ \/ r.framed /\ r.cond # {}
            \/ i.look \in {"words", "marked"} /\ i.when = {} /\ r.cond # {}
            \/ i.look \in {"image", "badge", "gap", "rule"} /\ (r.cond # {} \/ i.when # {})
            \/ /\ i.look \in {"placeholder", "anchor", "labelled", "expr"}
               /\ UNION (i.when \cup {r.cond}) \notin {{}, i.names}

(* Whoever writes a template by hand and takes it into the builder changes *)
(* nothing any recipient reads, whichever fields their mailbox has: the    *)
(* blocks bring each condition back.  That conditions around words are     *)
(* lost is known (Unguarded).                                              *)
ConvertedAlike ==
    [][(html # <<>> /\ blocks = <<>> /\ blocks' # <<>>)
         => \/ \E r \in ToSet(html) \cup ToSet(Flat(html)) : Unguarded(r)
            \/ \A P \in SUBSET Field : Seen(html', P) = Seen(html, P)]_builderVars
===============================================================================
