-------------------------------- MODULE Font --------------------------------
(***************************************************************************)
(* The display task: get_font() loads a TrueType file into a font_t, one   *)
(* step per table, and draw_text() paints a box per character              *)
(* (tasks/display_driver/text_render.c, file_parser.c, display_driver.c).  *)
(*                                                                         *)
(* The file is bytes; what they say of a font by the TrueType format, its  *)
(* face, is read by the properties only. The file exists, has the seven    *)
(* tables and a subtable of platform 3, as courier.ttf has: without one,   *)
(* get_font() goes on with what an uninitialised local or memory past an   *)
(* array says.                                                             *)
(***************************************************************************)
EXTENDS Draw, Sequences, TLC

CONSTANTS
    Fonts,     \* files considered, with their faces
    Texts,     \* arguments of draw_text(): sequences of characters
    FONT_SIZE  \* 64, text_render.c:262

VARIABLES
    at,        \* point reached in get_font(), "text" after it, or "none"
    raw_file,  \* the file, in memory
    tables,    \* table_id and table_offset
    font,      \* the other fields of the font_t
    blocks,    \* [asked, written] bytes of the arrays allocated, by name
    text,      \* characters still to draw
    drawn      \* history: the last character, and the box painted for it

fvars == <<at, raw_file, tables, font, blocks, text, drawn>>

NO_FONT == [units_per_em |-> 0, index_to_loc_format |-> 0, num_glyphs |-> 0,
            segments |-> 0, end_code |-> <<>>, start_code |-> <<>>, id_delta |-> <<>>,
            num_hor_metrics |-> 0, advance_width |-> <<>>, left_side_bearing |-> <<>>,
            offsets |-> <<>>, glyf |-> 0, cursor_x |-> 0, cursor_y |-> 0]

FontIdle ==
    /\ at = "none" /\ raw_file = <<>> /\ tables = <<>> /\ font = NO_FONT
    /\ blocks = <<>> /\ text = <<>> /\ drawn = <<>>

-----------------------------------------------------------------------------
(* file_parser.c: big-endian numbers.                                      *)
U16(bytes, p) == 256 * bytes[p + 1] + bytes[p + 2]
U32(bytes, p) == 65536 * U16(bytes, p) + U16(bytes, p + 2)
Int16(v) == IF v % 65536 < 32768 THEN v % 65536 ELSE (v % 65536) - 65536

read_uint16(p) == U16(raw_file.bytes, p)
read_int16(p) == Int16(read_uint16(p))
read_uint32(p) == U32(raw_file.bytes, p)

(* get_table_id() and the offset found with it.                            *)
get_table_id(tag) == CHOOSE i \in DOMAIN tables :
                        tables[i].id = tag /\ \A j \in 1..(i - 1) : tables[j].id # tag
Offset(tag) == tables[get_table_id(tag)].offset

(* The tags, as get_table_id() packs them.                                 *)
HEAD == 1751474532  \* "head"
MAXP == 1835104368  \* "maxp"
CMAP == 1668112752  \* "cmap"
HHEA == 1751672161  \* "hhea"
HMTX == 1752003704  \* "hmtx"
LOCA == 1819239265  \* "loca"
GLYF == 1735162214  \* "glyf"

Array(n, size, p) == [i \in 0..(n - 1) |-> read_uint16(p + size * i)]
Block(name, asked, written) == name :> [asked |-> asked, written |-> written]

Goes(from, to) == at = from /\ at' = to

-----------------------------------------------------------------------------
(* fopen() to fclose(): the whole file is read.                            *)
get_font(f) ==
    /\ Goes("none", "directory")
    /\ raw_file' = f
    /\ blocks' = Block("raw_file", Len(f.bytes), Len(f.bytes))
    /\ UNCHANGED <<tables, font, text, drawn>>

read_directory ==
    LET n == read_uint16(4)
    IN  /\ Goes("directory", "head")
        /\ tables' = [i \in 1..n |-> [id |-> read_uint32(16 * i - 4),
                                      offset |-> read_uint32(16 * i + 4)]]
        /\ blocks' = blocks @@ Block("table_id", 4 * n, 4 * n)
                            @@ Block("table_offset", 4 * n, 4 * n)
        /\ UNCHANGED <<raw_file, font, text, drawn>>

(* index_to_loc_format is read 8 bytes early, where yMax is: text_render.c *)
(* :83 skips one date of the table, which has two.                         *)
read_head_maxp ==
    /\ Goes("head", "cmap")
    /\ font' = [font EXCEPT !.units_per_em = read_uint16(Offset(HEAD) + 18),
                            !.index_to_loc_format = read_int16(Offset(HEAD) + 42),
                            !.num_glyphs = read_uint16(Offset(MAXP) + 4)]
    /\ UNCHANGED <<raw_file, tables, blocks, text, drawn>>

(* The first subtable of platform 3, and its format.                       *)
Subtable(i) == Offset(CMAP) + 4 + 8 * i
cmap_table_offset ==
    LET Windows(i) == read_uint16(Subtable(i)) = 3
    IN  read_uint32(Subtable(CHOOSE i \in 0..(read_uint16(Offset(CMAP) + 2) - 1) :
            Windows(i) /\ \A j \in 0..(i - 1) : ~Windows(j)) + 4)
cmap_table == Offset(CMAP) + cmap_table_offset

invalid_format ==
    /\ Goes("cmap", "invalid")
    /\ read_uint16(cmap_table) # 4
    /\ UNCHANGED <<raw_file, tables, font, blocks, text, drawn>>

(* The arrays of format 4 follow each other, with 2 bytes after the first. *)
Arrays == [end |-> 14, start |-> 16, delta |-> 16]

read_segments ==
    LET x2 == read_uint16(cmap_table + 6)
        n == x2 \div 2
    IN  /\ Goes("cmap", "metrics")
        /\ read_uint16(cmap_table) = 4
        /\ font' = [font EXCEPT
              !.segments = n,
              !.end_code = Array(n, 2, cmap_table + Arrays.end),
              !.start_code = Array(n, 2, cmap_table + Arrays.start + x2),
              !.id_delta = Array(n, 2, cmap_table + Arrays.delta + 2 * x2)]
        /\ blocks' = blocks @@ Block("end_code", x2, 2 * n)
                            @@ Block("start_code", x2, 2 * n)
                            @@ Block("id_delta", x2, 2 * n)
                            @@ Block("id_range_offset", x2, 2 * n)
                            @@ Block("glyph_index", x2, 2 * font.num_glyphs)
        /\ UNCHANGED <<raw_file, tables, text, drawn>>

read_metrics ==
    LET n == read_uint16(Offset(HHEA) + 34)
        rest == font.num_glyphs - n
    IN  /\ Goes("metrics", "loca")
        /\ font' = [font EXCEPT
              !.num_hor_metrics = n,
              !.advance_width = Array(n, 4, Offset(HMTX)),
              !.left_side_bearing =
                 [g \in 0..(font.num_glyphs - 1) |->
                    Int16(read_uint16(IF g < n
                                      THEN Offset(HMTX) + 4 * g + 2
                                      ELSE Offset(HMTX) + 4 * n + 2 * (g - n)))]]
        /\ blocks' = blocks @@ Block("h_metrics", 4 * n, 4 * n)
                            @@ Block("left_side_bearing", 4 * rest, 2 * rest)
        /\ UNCHANGED <<raw_file, tables, text, drawn>>

LocaOf_Short(i) == 2 * read_uint16(Offset(LOCA) + 2 * i)
LocaOf(i) == IF font.index_to_loc_format # 0
             THEN read_uint32(Offset(LOCA) + 4 * i)
             ELSE 2 * read_uint16(Offset(LOCA) + 2 * i)

read_loca ==
    /\ Goes("loca", "text")
    /\ font' = [font EXCEPT !.offsets = [i \in 0..font.num_glyphs |-> LocaOf(i)],
                            !.glyf = Offset(GLYF),
                            !.cursor_x = 10, !.cursor_y = 70]
    /\ blocks' = blocks @@ Block("offsets", 4 * font.num_glyphs, 4 * (font.num_glyphs + 1))
    /\ \E t \in Texts : text' = t
    /\ UNCHANGED <<raw_file, tables, drawn>>

-----------------------------------------------------------------------------
(* draw_char(). The segment searched for excludes both its ends.           *)
Supports_PastStart(i, c) == font.start_code[i] + 1 < c /\ c < font.end_code[i]

Supports(i, c) == font.start_code[i] < c /\ c < font.end_code[i]

glyph_index(c) ==
    LET found == {i \in 0..(font.segments - 1) : Supports(i, c)}
    IN  IF found = {} THEN 0
        ELSE (c + font.id_delta[CHOOSE i \in found : \A j \in found : i <= j]) % 65536

(* Where the box of glyph g is read: a glyph of no or negative contours    *)
(* sends the reader to the start of the file.                              *)
BoxAt_NextGlyph(g) == font.glyf + font.offsets[g + 1] + 2

BoxAt(g) ==
    LET glyph_data == font.glyf + font.offsets[g]
    IN  IF read_int16(glyph_data) > 0 THEN glyph_data + 2 ELSE font.offsets[0] + 4

BoxOf(g) == [x_min |-> read_int16(BoxAt(g)), y_min |-> read_int16(BoxAt(g) + 2),
             x_max |-> read_int16(BoxAt(g) + 4), y_max |-> read_int16(BoxAt(g) + 6)]

advance_width(g) ==
    font.advance_width[IF g < font.num_hor_metrics THEN g ELSE font.num_hor_metrics - 1]

(* Font units to pixels; C's division truncates.                           *)
Scale(v) == IF v >= 0 THEN (v * FONT_SIZE) \div font.units_per_em
                      ELSE -((-v * FONT_SIZE) \div font.units_per_em)

draw_char ==
    LET g == glyph_index(Head(text))
        box == BoxOf(g)
        draw_x == font.cursor_x + Scale(font.left_side_bearing[g]) + Scale(box.x_min)
        draw_y == font.cursor_y - Scale(box.y_max)
    IN  /\ at = "text"
        /\ text # <<>>
        /\ lit' = RectPixels(Int16(draw_x), Int16(draw_y),
                             Int16(Scale(box.x_max - box.x_min)),
                             Int16(Scale(box.y_max - box.y_min)))
        /\ font' = [font EXCEPT !.cursor_x = @ + Scale(advance_width(g))]
        /\ text' = Tail(text)
        /\ drawn' = [c |-> Head(text), glyph |-> g, box |-> box]
        /\ UNCHANGED <<at, raw_file, tables, blocks>>

(* The text is drawn, or the font was refused: the task only sleeps now,   *)
(* and what it held is forgotten.                                          *)
Sleeps ==
    /\ at = "invalid" \/ (at = "text" /\ text = <<>>)
    /\ at' = "none" /\ raw_file' = <<>> /\ tables' = <<>> /\ font' = NO_FONT
    /\ blocks' = <<>> /\ text' = <<>> /\ drawn' = <<>> /\ lit' = {}

Loading == \/ read_directory \/ read_head_maxp \/ invalid_format
           \/ read_segments \/ read_metrics \/ read_loca

FontTurn == \/ Loading /\ UNCHANGED dvars
            \/ (draw_char \/ Sleeps) /\ UNCHANGED locals

FontNext == (\E f \in Fonts : get_font(f) /\ UNCHANGED dvars) \/ FontTurn

-----------------------------------------------------------------------------
(* The TrueType format: what the bytes of a file say of its face. Each     *)
(* table is in the directory once.                                         *)
TAGS == {HEAD, MAXP, CMAP, HHEA, HMTX, LOCA, GLYF}

Place(bytes, tag) ==
    U32(bytes, 16 * (CHOOSE i \in 1..U16(bytes, 4) : U32(bytes, 16 * i - 4) = tag) + 4)

Directory(bytes) ==
    /\ U16(bytes, 4) \in Nat
    /\ \A tag \in TAGS : \E i \in 1..U16(bytes, 4) :
          \A j \in 1..U16(bytes, 4) : U32(bytes, 16 * j - 4) = tag <=> j = i

(* Glyphs past the last metric have its width. Long offsets, and a highest *)
(* glyph that reaches above the line (see read_head_maxp()).               *)
Glyphs(bytes, face) ==
    LET metrics == U16(bytes, Place(bytes, HHEA) + 34)
        hmtx == Place(bytes, HMTX)
    IN  /\ face.units_per_em = U16(bytes, Place(bytes, HEAD) + 18)
        /\ Int16(U16(bytes, Place(bytes, HEAD) + 42)) # 0
        /\ face.num_glyphs = U16(bytes, Place(bytes, MAXP) + 4)
        /\ face.num_glyphs \in Nat /\ metrics \in 1..face.num_glyphs
        /\ \A g \in 0..(face.num_glyphs - 1) :
              /\ face.offsets[g] = U32(bytes, Place(bytes, LOCA) + 4 * g)
              /\ face.advance[g] =
                    U16(bytes, hmtx + 4 * (IF g < metrics THEN g ELSE metrics - 1))
              /\ face.bearing[g] =
                    Int16(U16(bytes, IF g < metrics THEN hmtx + 4 * g + 2
                                     ELSE hmtx + 4 * metrics + 2 * (g - metrics)))

(* The box of a glyph with an outline of its own: not empty, not composite.*)
Boxes(bytes, face) ==
    \A g \in DOMAIN face.box :
        LET p == Place(bytes, GLYF) + face.offsets[g]
            I16(q) == Int16(U16(bytes, q))
        IN  /\ g \in 0..(face.num_glyphs - 1) /\ p \in Nat
            /\ I16(p) > 0
            /\ face.box[g] = [x_min |-> I16(p + 2), y_min |-> I16(p + 4),
                              x_max |-> I16(p + 6), y_max |-> I16(p + 8)]

(* The first subtable of platform 3.                                       *)
CharacterTable(bytes) ==
    LET cmap == Place(bytes, CMAP)
        Windows(i) == U16(bytes, cmap + 4 + 8 * i) = 3
        first == CHOOSE i \in 0..(U16(bytes, cmap + 2) - 1) :
                    Windows(i) /\ \A j \in 0..(i - 1) : ~Windows(j)
    IN  cmap + U32(bytes, cmap + 4 + 8 * first + 4)

(* The segments of format 4, and where the list of each begins.            *)
SegmentsOf(bytes) ==
    LET p == CharacterTable(bytes)
        x2 == U16(bytes, p + 6)
    IN  [i \in 0..(x2 \div 2 - 1) |->
            LET range == p + 16 + 3 * x2 + 2 * i
            IN  [start |-> U16(bytes, p + 16 + x2 + 2 * i),
                 end |-> U16(bytes, p + 14 + 2 * i),
                 delta |-> U16(bytes, p + 16 + 2 * x2 + 2 * i),
                 range |-> U16(bytes, range),
                 list |-> range + U16(bytes, range)]]

(* A segment has the characters from its start to its end, both included.  *)
(* With a range offset their glyphs are in the list, less the delta; the   *)
(* code reads neither (text_render.c:157-163, 241).                        *)
Holds(segment, c) == c \in segment.start..segment.end

GlyphOfFormat(bytes, segment, c) ==
    LET listed == U16(bytes, segment.list + 2 * (c - segment.start))
    IN  IF segment.range = 0 THEN (c + segment.delta) % 65536
        ELSE IF listed = 0 THEN 0 ELSE (listed + segment.delta) % 65536

Characters(bytes, face) ==
    LET segments == SegmentsOf(bytes)
    IN  /\ DOMAIN face.glyph \subseteq Nat /\ U16(bytes, CharacterTable(bytes) + 6) \in Nat
        /\ U16(bytes, CharacterTable(bytes)) = 4 =>
              /\ \A i \in DOMAIN segments : {segments[i].start, segments[i].end} \subseteq Nat
              /\ \A c \in DOMAIN face.glyph :
                    LET holding == {i \in DOMAIN segments : Holds(segments[i], c)}
                    IN  IF holding = {} THEN face.glyph[c] = 0
                        ELSE \A i \in holding : face.glyph[c] = GlyphOfFormat(bytes, segments[i], c)

(* Not the format's: where the code takes another number for the glyph, in *)
(* a segment with a range offset, the font has a glyph of that number too. *)
InFont(bytes, face) ==
    U16(bytes, CharacterTable(bytes)) = 4 =>
        \A i \in DOMAIN SegmentsOf(bytes), c \in DOMAIN face.glyph :
            LET segment == SegmentsOf(bytes)[i]
            IN  Holds(segment, c) => (c + segment.delta) % 65536 < face.num_glyphs

ASSUME FontAssumption ==
    \A f \in Fonts : /\ Directory(f.bytes) /\ Glyphs(f.bytes, f.face)
                     /\ Boxes(f.bytes, f.face) /\ Characters(f.bytes, f.face)
                     /\ InFont(f.bytes, f.face)
                     /\ Texts \subseteq Seq(DOMAIN f.face.glyph)

-----------------------------------------------------------------------------
(* What get_font() keeps is what the file says of its face: how many       *)
(* glyphs, where each is, how wide and how far right of the pen, although  *)
(* each table is read at its own distances and the tables come in any      *)
(* order (text_render.c:68-205). Fonts of long offsets, see README.        *)
LoadsFace ==
    LET face == raw_file.face
    IN  at = "text" =>
          /\ font.num_glyphs = face.num_glyphs
          /\ font.units_per_em = face.units_per_em
          /\ \A g \in 0..(face.num_glyphs - 1) :
                /\ font.offsets[g] = face.offsets[g]
                /\ advance_width(g) = face.advance[g]
                /\ font.left_side_bearing[g] = face.bearing[g]

(* A character strictly inside a segment is drawn as the glyph the face    *)
(* gives it, one at an end of a segment as that or as the missing one, as  *)
(* long as no segment with a range offset has it; and if the glyph drawn   *)
(* has an outline of its own, in that outline's box: three tables and the  *)
(* search of text_render.c:237-246 agree.                                  *)
Plain(bytes, c) ==
    \A i \in DOMAIN SegmentsOf(bytes) :
        Holds(SegmentsOf(bytes)[i], c) => SegmentsOf(bytes)[i].range = 0
Inner(bytes, c) ==
    \E i \in DOMAIN SegmentsOf(bytes) :
        SegmentsOf(bytes)[i].start < c /\ c < SegmentsOf(bytes)[i].end

Drawable(f, c) == {f.face.glyph[c]} \cup IF Inner(f.bytes, c) THEN {} ELSE {0}

DrawsItsGlyph ==
    drawn # <<>> =>
        /\ Plain(raw_file.bytes, drawn.c) => drawn.glyph \in Drawable(raw_file, drawn.c)
        /\ drawn.glyph \in DOMAIN raw_file.face.box =>
              drawn.box = raw_file.face.box[drawn.glyph]

(* "Aloca os recursos necessarios" (text_render.c:137): the arrays hold    *)
(* what is written into them. k_malloc() rounds a size up to 8.            *)
WritesStayInBlocks ==
    \A b \in DOMAIN blocks : blocks[b].written <= 8 * ((blocks[b].asked + 7) \div 8)
=============================================================================
