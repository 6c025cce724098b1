------------------------------- MODULE Render -------------------------------
(***************************************************************************)
(* Text in the framebuffer (tty/render/render.c): a character as the pixels *)
(* it writes, a text as its characters, and where a text is aligned.       *)
(*                                                                         *)
(* dim is szFrameDimensions: width, height and scale.  A font is a record; *)
(* its bitmap maps a place to a byte.  Coordinates are words: they wrap.   *)
(***************************************************************************)
LOCAL INSTANCE Integers
LOCAL INSTANCE Sequences
LOCAL INSTANCE TLC

CONSTANTS
  Word,              \* 2^32
  MAX_TEXT_LENGTH,   \* 1024: characters of a text that are aligned
  CenterLength       \* 1000: characters of a text that is centred

BLANK == 32

\* The dimensions that are given, and the scale with them.
RenderSetDim(dim, new, affected) == [i \in 1..3 |-> IF affected[i] THEN new[i] ELSE dim[i]]

\* A colour is a record; opaque says whether any of its highest eight bits is
\* set.  One part of a blend, from the font's grey values.
Alpha(intensity, bpp) ==
  CASE bpp = 2 -> (intensity * 85) % 256
    [] bpp = 4 -> (intensity * 17) % 256
    [] OTHER   -> IF intensity # 0 THEN 255 ELSE 0

\* Fully one colour or the other at the ends of the scale.
RenderBlend(bg, fg, intensity, bpp) ==
  LET a == Alpha(intensity, bpp)
  IN IF a = 0 THEN bg
     ELSE IF a = 255 THEN fg
     ELSE [c \in {"r", "g", "b"} |-> (fg[c] * a + bg[c] * (255 - a)) \div 255]
          @@ [opaque |-> FALSE]

PixelsPerByte(font) == 8 \div font.bpp
BytesPerRow(font) == (font.char_width + PixelsPerByte(font) - 1) \div PixelsPerByte(font)

\* The value of a font's pixel: the leftmost in the highest bits of its byte.
PixelValue(font, chr, sx, sy) ==
  LET byte == font.bitmap[ (chr - font.first_char) * BytesPerRow(font) * font.char_height
                           + sy * BytesPerRow(font) + sx \div PixelsPerByte(font) ]
      shift == (PixelsPerByte(font) - 1 - (sx % PixelsPerByte(font))) * font.bpp
  IN (byte \div 2 ^ shift) % 2 ^ font.bpp

Shown(font, chr) == IF chr \in font.first_char..font.last_char THEN chr ELSE BLANK

\* Mutant of Inside: one column and one row too far.
InsideLast(dim, x, y) == x <= dim[1] /\ y <= dim[2]

Inside(dim, x, y) == x < dim[1] /\ y < dim[2]

\* Skipped colours: a pixel of the background, or of the foreground in a font
\* of one bit, that is not opaque is left alone.
Skipped(font, v, bg, fg) ==
  \/ v = 0 /\ ~bg.opaque
  \/ v # 0 /\ font.bpp = 1 /\ ~fg.opaque

\* The places written, of the frame taken as one row, with their colours.
RenderChar(dim, font, chr, px, py, bg, fg) ==
  LET at(x, y)  == <<(px + x) % Word, (py + y) % Word>>
      v(x, y)   == PixelValue(font, Shown(font, chr), x \div dim[3], y \div dim[3])
      cells     == {c \in (0..font.char_width * dim[3] - 1) \X (0..font.char_height * dim[3] - 1) :
                      /\ Inside(dim, at(c[1], c[2])[1], at(c[1], c[2])[2])
                      /\ ~Skipped(font, v(c[1], c[2]), bg, fg)}
  IN IF dim[1] = 0 \/ dim[2] = 0 \/ ~Inside(dim, px, py) THEN {}
     ELSE {<<at(c[1], c[2])[2] * dim[1] + at(c[1], c[2])[1],
             RenderBlend(bg, fg, v(c[1], c[2]), font.bpp)>> : c \in cells}

\* One character after the other, also over the right edge: those are cut off.
RenderPrint(dim, font, text, px, py, bg, fg) ==
  UNION {RenderChar(dim, font, text[i], (px + (i - 1) * font.char_width * dim[3]) % Word,
                    py, bg, fg) : i \in DOMAIN text}

\* How many characters of a text are counted.
strnlen(text, max) == IF Len(text) < max THEN Len(text) ELSE max

\* By the number of characters, whatever the font's size; left of the frame
\* when the text is longer than the frame is wide.
RenderCenter(dim, text) ==
  <<(dim[1] \div 2 - strnlen(text, CenterLength) \div 2) % Word, dim[2] \div 2>>

Align(extent, size, margin, align) ==
  CASE align = "CENTER" ->
         IF extent >= size + margin THEN (extent - size - margin) \div 2 ELSE 0
    [] align = "RIGHT_BOTTOM" -> IF extent >= size + margin THEN extent - size - margin ELSE 0
    [] OTHER -> margin

RenderAlign(dim, font, text, mx, my, alignX, alignY) ==
  <<Align(dim[1], strnlen(text, MAX_TEXT_LENGTH) * font.char_width * dim[3], mx, alignX),
    Align(dim[2], font.char_height * dim[3], my, alignY)>>
=============================================================================
