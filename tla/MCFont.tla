------------------------------- MODULE MCFont -------------------------------
(* Small TrueType files for TLC: the fields get_font() reads where the     *)
(* format puts them, filler elsewhere.                                     *)
EXTENDS Font

B16(v) == LET w == v % 65536 IN <<w \div 256, w % 256>>
B32(v) == B16(v \div 65536) \o B16(v % 65536)
Fill(n) == [i \in 1..n |-> (i % 7) + 1]
Each(n, Bytes(_)) ==   \* Bytes(0) to Bytes(n - 1), one after the other
    LET f[i \in 0..n] == IF i = 0 THEN <<>> ELSE f[i - 1] \o Bytes(i - 1) IN f[n]

(* Six glyphs. In a Plain font they are the missing one, those of 11 and   *)
(* 20, of 12 and 21, of 13 and 22, of 14, and one of no character; 10 and  *)
(* 14, 20 and 22 are ends of segments. In a Ranged one the first segment,  *)
(* 2 to 4, has its glyphs in a list, where 3 has none. Two glyphs have a   *)
(* width of their own, as one is enough to have in a monospaced font. The  *)
(* one of number 3 is composed of others.                                  *)
PlainGlyph == [c \in 2..22 |-> CASE c \in 10..14 -> c - 10 [] c \in 20..22 -> c - 19 [] OTHER -> 0]
RangedGlyph == [c \in 2..22 |-> CASE c = 2 -> 5 [] c = 4 -> 1 [] c \in 10..14 -> c - 10 [] OTHER -> 0]

Face == [
    num_glyphs |-> 6,
    units_per_em |-> 128,
    offsets |-> [g \in 0..6 |-> 10 * g],
    advance |-> [g \in 0..5 |-> IF g = 0 THEN 6 ELSE 4],
    bearing |-> [g \in 0..5 |-> g - 2],
    glyph |-> PlainGlyph,
    box |-> [g \in (0..5) \ {3} |-> [x_min |-> 0 - g, y_min |-> -2, x_max |-> 4, y_max |-> 136 + g]]]

PlainSegments == [end |-> <<14, 22, 65535>>, start |-> <<10, 20, 65535>>,
                  delta |-> <<65526, 65517, 1>>, range |-> <<0, 0, 0>>]
RangedSegments == [end |-> <<4, 14, 65535>>, start |-> <<2, 10, 65535>>,
                   delta |-> <<0, 65526, 1>>, range |-> <<6, 0, 0>>]
List == <<5, 0, 1>>

Head_ == Fill(18) \o B16(Face.units_per_em) \o Fill(22) \o B16(9) \o Fill(6) \o B16(1)
Maxp == Fill(4) \o B16(Face.num_glyphs)
Cmap(format, s) ==
    Fill(2) \o B16(2) \o B16(0) \o B16(3) \o B32(100) \o B16(3) \o B16(1) \o B32(20)
    \o B16(format) \o Fill(4) \o B16(6) \o Fill(6)
    \o Each(3, LAMBDA i : B16(s.end[i + 1])) \o Fill(2)
    \o Each(3, LAMBDA i : B16(s.start[i + 1])) \o Each(3, LAMBDA i : B16(s.delta[i + 1]))
    \o Each(3, LAMBDA i : B16(s.range[i + 1])) \o Each(3, LAMBDA i : B16(List[i + 1]))
    \o Fill(2 * Face.num_glyphs)
Hhea == Fill(34) \o B16(2)
Hmtx == Each(2, LAMBDA g : B16(Face.advance[g]) \o B16(Face.bearing[g]))
        \o Each(4, LAMBDA g : B16(Face.bearing[g + 2]))
Loca == Each(7, LAMBDA g : B32(Face.offsets[g]))
Glyf == Each(6, LAMBDA g :
          IF g \in DOMAIN Face.box
          THEN B16(1) \o B16(Face.box[g].x_min) \o B16(Face.box[g].y_min)
                      \o B16(Face.box[g].x_max) \o B16(Face.box[g].y_max)
          ELSE B16(-1) \o Fill(8))

File(list) ==
    LET start_[i \in 1..(Len(list) + 1)] ==
            IF i = 1 THEN 12 + 16 * Len(list)
            ELSE start_[i - 1] + Len(list[i - 1][2])
    IN  Fill(4) \o B16(Len(list)) \o Fill(6)
        \o Each(Len(list), LAMBDA i : B32(list[i + 1][1]) \o Fill(4)
                                      \o B32(start_[i + 1]) \o Fill(4))
        \o Each(Len(list), LAMBDA i : list[i + 1][2])

Small(format, s) ==
    File(<<<<CMAP, Cmap(format, s)>>, <<GLYF, Glyf>>, <<HEAD, Head_>>, <<HHEA, Hhea>>,
           <<HMTX, Hmtx>>, <<LOCA, Loca>>, <<MAXP, Maxp>>>>)
Shuffled ==
    File(<<<<MAXP, Maxp>>, <<LOCA, Loca>>, <<1, Fill(8)>>, <<CMAP, Cmap(4, PlainSegments)>>,
           <<HEAD, Head_>>, <<GLYF, Glyf>>, <<HMTX, Hmtx>>, <<HHEA, Hhea>>>>)

MCFonts ==
    {[bytes |-> b, face |-> Face] :
        b \in {Small(4, PlainSegments), Small(12, PlainSegments), Shuffled}}
    \cup {[bytes |-> Small(4, RangedSegments), face |-> [Face EXCEPT !.glyph = RangedGlyph]]}
MCTexts == {<<c>> : c \in 2..22} \cup {<<11, 21, 12>>, <<>>}
MCPoints == [x : 0..5, y : 0..4]

FontSpec == DrawIdle /\ FontIdle /\ [][FontNext]_<<dvars, fvars>>
=============================================================================
