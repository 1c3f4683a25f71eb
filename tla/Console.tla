------------------------------ MODULE Console ------------------------------
(***************************************************************************)
(* The framebuffer console (Drivers/GPU/framebuffer.cpp and .hpp) and the  *)
(* rectangle renderer on the same buffer.  The screen is a grid of cells   *)
(* of 8 by 16 pixels that show a character; the operators map the state of *)
(* the framebuffer object to its next state.                               *)
(***************************************************************************)
EXTENDS Std

CONSTANTS Width, Height \* of the screen, in characters

ASSUME ScreenAssumption == Width \in Nat \ {0} /\ Height \in Nat \ {0}

Background == " "
Square == "square"
TabSize == 4
Cells == 0..Width * Height - 1

NewFramebuffer ==
    [initialized |-> TRUE, dirty |-> TRUE, x |-> 0, y |-> 0,
     back |-> [c \in Cells |-> Background], front |-> [c \in Cells |-> Background]]

(* MUTANT: the flag is reset, but nothing is copied. *)
SwapNothing(fb) == IF fb.initialized THEN [fb EXCEPT !.dirty = FALSE] ELSE fb

Swap(fb) ==
    IF fb.initialized /\ fb.dirty THEN [fb EXCEPT !.front = fb.back, !.dirty = FALSE] ELSE fb

(* The cursor stays where it is. *)
Clear(fb) ==
    [fb EXCEPT !.back = Memset(fb.back, 0, Background, Width * Height), !.dirty = TRUE]

(* What would lie outside the screen is not drawn. *)
PutCharAt(fb, c, x, y) ==
    IF ~fb.initialized THEN fb
    ELSE IF x < Width /\ y < Height
         THEN [fb EXCEPT !.back[y * Width + x] = c, !.dirty = TRUE]
         ELSE [fb EXCEPT !.dirty = TRUE]

(* Source and destination overlap. *)
Scroll(fb, lines) ==
    IF ~fb.initialized \/ lines = 0 THEN fb
    ELSE IF lines >= Height THEN Clear(fb)
    ELSE LET kept == (Height - lines) * Width
             moved == Memcpy(fb.back, 0, lines * Width, kept)
         IN [fb EXCEPT !.back = Memset(moved, kept, Background, lines * Width),
                       !.dirty = TRUE]

NewLine(fb) ==
    IF fb.y + 1 >= Height
    THEN [Scroll(fb, 1) EXCEPT !.x = 0, !.y = Height - 1]
    ELSE [fb EXCEPT !.x = 0, !.y = fb.y + 1]

IncCursor(fb, n) ==
    IF fb.x + n >= Width THEN NewLine(fb) ELSE [fb EXCEPT !.x = fb.x + n]

(* MUTANT: the cursor does not go back over the end of a line. *)
DecCursorStuck(fb, n) == [fb EXCEPT !.x = IF fb.x >= n THEN fb.x - n ELSE 0]

DecCursor(fb, n) ==
    IF fb.x >= n THEN [fb EXCEPT !.x = fb.x - n]
    ELSE [fb EXCEPT !.x = Width - 1, !.y = IF fb.y > 0 THEN fb.y - 1 ELSE 0]

PutGlyph(fb, c) == IncCursor(PutCharAt(fb, c, fb.x, fb.y), 1)

Backspace(fb) ==
    LET blanked == DecCursor(PutCharAt(fb, " ", fb.x, fb.y), 1)
    IN PutCharAt(blanked, " ", blanked.x, blanked.y)

PutChar(fb, c) ==
    IF ~fb.initialized THEN fb
    ELSE CASE c = "\t" -> PutGlyph(IncCursor(fb, TabSize), " ")
           [] c = "\n" -> NewLine(fb)
           [] c = "bs" -> Backspace(fb)
           [] OTHER    -> PutGlyph(fb, c)

PutText(fb, text) ==
    LET after[n \in 0..Len(text)] == IF n = 0 THEN fb ELSE PutChar(after[n - 1], text[n])
    IN after[Len(text)]

(* log::info and the others: kernel::printf of the text and a newline. *)
Log(fb, text, args) == PutText(fb, Format(<<"&", "7">> \o text \o <<"\n">>, args))

----------------------------------------------------------------------------
(* rectangle: position and size are given in tenths of the screen.  Only   *)
(* the position is checked; pixels outside wrap, or fall behind the        *)
(* buffer.                                                                 *)
PixelWidth == 8 * Width
PixelHeight == 16 * Height

CellAt(px, py) == LET i == py * PixelWidth + px
                  IN (i \div (16 * PixelWidth)) * Width + (i % PixelWidth) \div 8

Touched(x, y, w, h) ==
    LET px == (x * (PixelWidth - 1)) \div 10
        py == (y * (PixelHeight - 1)) \div 10
    IN IF px < 0 \/ py < 0 \/ px >= PixelWidth \/ py >= PixelHeight THEN {}
       ELSE {CellAt(i, j) : i \in px..px + (w * PixelWidth) \div 10 - 1,
                            j \in py..py + (h * PixelHeight) \div 10 - 1}

(* A frame of the chess program: 64 squares, and a swap. *)
Board == UNION {Touched(1 + x, 1 + y, 1, 1) : x \in 0..7, y \in 0..7}

ChessFrame(fb) ==
    Swap([fb EXCEPT !.back = [c \in Cells |-> IF c \in Board THEN Square ELSE fb.back[c]],
                    !.dirty = TRUE])
=============================================================================
