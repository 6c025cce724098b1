------------------------------ MODULE Desktop ------------------------------
(***************************************************************************)
(* The window manager's process (wm2/wm.c): it draws the windows and the   *)
(* cursor into a frame buffer, keeps what is behind each to put back, and  *)
(* copies what changed to the screen; the mouse moves the cursor, and with *)
(* its middle button the windows.                                          *)
(*                                                                         *)
(* A pixel is what was drawn there: nothing, a window, the cursor, or what *)
(* malloc left in a buffer.  A picture is the set of its opaque pixels: a  *)
(* transparent one leaves what is below.  kmain registers the windows      *)
(* after it has started the process, with interrupts on as soon as a disc  *)
(* was read (ide.c:386), so the process is cut where it reads the list.    *)
(* Windows have no children and are never taken off the list.              *)
(***************************************************************************)
EXTENDS Integers, Sequences

CONSTANTS
  DisplayW, DisplayH,
  Order,      \* the windows, the first of the full list first
  Sizes,      \* their widths and heights
  CursorSize, \* width and height of the cursor's image
  CursorImage,\* its opaque pixels, in the file's coordinates
  MaxMoved    \* bound: times the mouse moves

VARIABLES
  front,       \* Display->Front, the screen
  framebuffer, \* Display->Framebuffer
  behind,      \* Behind of each window
  mouseSave,   \* MouseSave
  surface,     \* where each window is
  mouseAt,     \* where MouseSurface is
  mx, my, middle,  \* the mouse
  hovered,     \* the window picked up, with its offset, or none
  head,        \* RootObject.Children, by its number in Order
  linked,      \* kmain has linked it and not yet marked it dirty
  dirty,       \* the windows to draw
  painted,     \* those whose surface has been drawn
  loop,        \* the part of the loop that comes next
  obj,         \* Obj of the loops over the list, 0 before its first value
  old,         \* OldX and OldY of a move that is under way, or none
  movedMouse   \* times the mouse moved

desktopVars == <<front, framebuffer, behind, mouseSave, surface, mouseAt, mx, my, middle,
                 hovered, head, linked, dirty, painted, loop, obj, old, movedMouse>>

Windows == {Order[i] : i \in 1 .. Len(Order)}
Cells   == (0 .. DisplayW - 1) \X (0 .. DisplayH - 1)
Blank   == "blank"
Junk    == "junk"
Cursor  == "cursor"

(* Every window is an object of its own and registered once (init.c:265). *)
DesktopAssumption ==
  /\ DisplayW \in Nat \ {0} /\ DisplayH \in Nat \ {0} /\ MaxMoved \in Nat
  /\ Order \in Seq(DOMAIN Sizes)
  /\ \A i, j \in 1 .. Len(Order) : Order[i] = Order[j] => i = j
  /\ \A w \in Windows : w \notin {Blank, Junk, Cursor} /\ Sizes[w] \in Nat \X Nat
  /\ CursorSize \in Nat \X Nat

Larger(a, b)  == IF a > b THEN a ELSE b
Smaller(a, b) == IF a < b THEN a ELSE b

-----------------------------------------------------------------------------
(* Surfaces: where, how large.                                             *)

At(at, size) == [x |-> at[1], y |-> at[2], w |-> size[1], h |-> size[2]]

WindowSurface(w) == At(surface[w], Sizes[w])
MouseSurface     == At(mouseAt, CursorSize)

(* The part of a surface on the display, as SaveBackground,                *)
(* RestoreBackground and GDI2BlitSurface each clip it.                     *)
Extent(at, size, room) ==
  LET copy == size + Smaller(at, 0)
      from == Larger(at, 0)
  IN  from .. from + Smaller(copy, room - from) - 1

OnDisplay(s) == Extent(s.x, s.w, DisplayW) \X Extent(s.y, s.h, DisplayH)

(* GDI2PartialCommit clips by the ends. *)
Committed(s) == (Larger(s.x, 0) .. Smaller(s.x + s.w, DisplayW) - 1)
                \X (Larger(s.y, 0) .. Smaller(s.y + s.h, DisplayH) - 1)

Pixel(s, c) == <<c[1] - s.x, c[2] - s.y>>

SaveBackground(fb, s, buffer) ==
  [p \in DOMAIN buffer |->
     LET c == <<s.x + p[1], s.y + p[2]>> IN IF c \in OnDisplay(s) THEN fb[c] ELSE buffer[p]]

RestoreBackground(fb, s, buffer) ==
  [c \in Cells |-> IF c \in OnDisplay(s) THEN buffer[Pixel(s, c)] ELSE fb[c]]

GDI2BlitSurface(fb, s, opaque, what) ==
  [c \in Cells |-> IF c \in OnDisplay(s) /\ Pixel(s, c) \in opaque THEN what ELSE fb[c]]

GDI2PartialCommit(scr, fb, s) == [c \in Cells |-> IF c \in Committed(s) THEN fb[c] ELSE scr[c]]

Local(size) == (0 .. size[1] - 1) \X (0 .. size[2] - 1)

(* Where GDI2Pixel32 puts a point of a plane at depth 1 on a surface whose *)
(* origin is its middle.                                                   *)
Projected(size, x, y) == <<size[1] \div 2 + x, size[2] \div 2 - y>>

(* GDI2DrawRect: from corner to corner, one short of the half size. *)
Drawn(size) ==
  LET rx == size[1] \div 2 - 1  ry == size[2] \div 2 - 1
  IN  {Projected(size, x, y) : x \in -rx .. rx, y \in -ry .. ry} \cap Local(size)

(* PXRender *)
CursorPixels ==
  {Projected(CursorSize, p[1] - CursorSize[1] \div 2,
             CursorSize[2] - p[2] - CursorSize[2] \div 2) : p \in CursorImage}
    \cap Local(CursorSize)

-----------------------------------------------------------------------------
(* kmain's loop over the windows. *)

Registered == {Order[i] : i \in head .. Len(Order)}

processVars == <<front, framebuffer, behind, mouseSave, surface, mouseAt, mx, my, middle,
                 hovered, painted, loop, obj, old, movedMouse>>

(* WM_2_RegisterDisplayObject, whose object kmain has marked before: it is *)
(* made the first of the list, and marked again.                           *)
Register ==
  /\ head > 1 /\ ~linked
  /\ head' = head - 1 /\ linked' = TRUE /\ dirty' = dirty \cup {Order[head - 1]}
  /\ UNCHANGED processVars

MarkDirty ==
  /\ linked /\ linked' = FALSE /\ dirty' = dirty \cup {Order[head]}
  /\ UNCHANGED <<head, processVars>>

-----------------------------------------------------------------------------
(* The process. *)

kmainVars == <<head, linked>>
pointerVars == <<surface, mouseAt, mx, my, middle, hovered, movedMouse>>

(* Obj: the first window of the list when a loop begins, read then.        *)
Obj == IF obj = 0 THEN head ELSE obj

(* WM_2_MoveDisplayObject is what runs the loops over the list. *)
NoMove == <<>>
Moving == old # NoMove

NotHovered == <<>>

(* WM_2_Draw and what it answers.  When it has drawn a window all of them  *)
(* are to be put down again.                                               *)
Draw ==
  /\ loop = "draw"
  /\ dirty' = {} /\ painted' = painted \cup dirty
  /\ \/ /\ dirty = {} /\ loop' = "mouse"
        /\ UNCHANGED framebuffer
     \/ /\ dirty # {} /\ loop' = "clear"
        /\ framebuffer' = RestoreBackground(framebuffer, MouseSurface, mouseSave)
  /\ UNCHANGED <<front, behind, mouseSave, obj, old, pointerVars, kmainVars>>

(* A turn of the first loop: a window is taken away. A move commits that. *)
TakeAway ==
  /\ loop = "clear" /\ Obj <= Len(Order) /\ obj' = Obj + 1
  /\ LET w == Order[Obj] IN
       /\ framebuffer' = RestoreBackground(framebuffer, WindowSurface(w), behind[w])
       /\ front' = IF Moving THEN GDI2PartialCommit(front, framebuffer', WindowSurface(w)) ELSE front
  /\ UNCHANGED <<behind, mouseSave, dirty, painted, loop, old, pointerVars, kmainVars>>

Target == <<mx - hovered[2], my - hovered[3]>>

TakenAway ==
  /\ loop = "clear" /\ Obj > Len(Order) /\ obj' = 0 /\ loop' = "place"
  /\ surface' = IF Moving THEN [surface EXCEPT ![hovered[1]] = Target] ELSE surface
  /\ UNCHANGED <<front, framebuffer, behind, mouseSave, mouseAt, mx, my, middle, hovered,
                 dirty, painted, old, movedMouse, kmainVars>>

(* What a window's surface shows: nothing before it is drawn. *)
Image(w) == IF w \in painted THEN Drawn(Sizes[w]) ELSE {}

(* A turn of the second loop: a window is put down. *)
PutDown ==
  /\ loop = "place" /\ Obj <= Len(Order) /\ obj' = Obj + 1
  /\ LET w == Order[Obj] IN
       /\ behind' = [behind EXCEPT ![w] = SaveBackground(framebuffer, WindowSurface(w), @)]
       /\ framebuffer' = GDI2BlitSurface(framebuffer, WindowSurface(w), Image(w), w)
       /\ front' = GDI2PartialCommit(front, framebuffer', WindowSurface(w))
  /\ UNCHANGED <<mouseSave, dirty, painted, loop, old, pointerVars, kmainVars>>

(* The cursor is put down at s: the last step of each of the three ways of *)
(* changing the picture.                                                   *)
ShowCursor(scr, fb, s) ==
  /\ mouseSave' = SaveBackground(fb, s, mouseSave)
  /\ framebuffer' = GDI2BlitSurface(fb, s, CursorPixels, Cursor)
  /\ front' = GDI2PartialCommit(scr, framebuffer', s)

(* The smaller of two coordinates as unsigned words: a negative one is the *)
(* larger.                                                                 *)
MinU(a, b) == IF (a < 0) = (b < 0) THEN Smaller(a, b) ELSE Larger(a, b)

Between(a, b) == Larger(a, b) - Smaller(a, b)

(* UnionSurface of a window moved to where it is now. *)
UnionSurface(w) ==
  LET at == surface[w] IN
  At(<<MinU(old[1], at[1]), MinU(old[2], at[2])>>,
     <<Sizes[w][1] + Between(at[1], old[1]), Sizes[w][2] + Between(at[2], old[2])>>)

(* After the second loop the cursor comes back; a move ends with it. *)
AllDown ==
  /\ loop = "place" /\ Obj > Len(Order) /\ obj' = 0
  /\ ShowCursor(IF Moving THEN GDI2PartialCommit(front, framebuffer, UnionSurface(hovered[1]))
                 ELSE front, framebuffer, MouseSurface)
  /\ loop' = (IF Moving THEN "draw" ELSE "mouse") /\ old' = NoMove
  /\ hovered' = IF Moving THEN NotHovered ELSE hovered
  /\ UNCHANGED <<behind, surface, mouseAt, mx, my, middle, dirty, painted, movedMouse, kmainVars>>

(* Mutant of FollowMouse: the place the cursor leaves is not committed. *)
FollowMouseUncommitted(x, y) ==
  /\ mouseAt' = <<x, y>>
  /\ IF mouseAt = <<x, y>> THEN UNCHANGED <<front, framebuffer, mouseSave>>
     ELSE ShowCursor(front, RestoreBackground(framebuffer, MouseSurface, mouseSave),
                     At(<<x, y>>, CursorSize))

FollowMouse(x, y) ==
  /\ mouseAt' = <<x, y>>
  /\ IF mouseAt = <<x, y>> THEN UNCHANGED <<front, framebuffer, mouseSave>>
     ELSE LET fb == RestoreBackground(framebuffer, MouseSurface, mouseSave)
          IN  ShowCursor(GDI2PartialCommit(front, fb, MouseSurface), fb, At(<<x, y>>, CursorSize))

(* mouseFetch leaves the mouse somewhere on the screen; the cursor follows.*)
MoveMouse ==
  /\ loop = "mouse" /\ loop' = "button"
  /\ \E x \in 0 .. DisplayW - 1, y \in 0 .. DisplayH - 1, b \in BOOLEAN :
       /\ mx' = x /\ my' = y /\ middle' = b
       /\ movedMouse' = IF <<x, y, b>> = <<mx, my, middle>> THEN movedMouse ELSE movedMouse + 1
       /\ movedMouse' <= MaxMoved
       /\ FollowMouse(x, y)
  /\ UNCHANGED <<behind, surface, hovered, dirty, painted, obj, old, kmainVars>>

(* WM_2_HitTest: the first of the windows under the mouse with the highest *)
(* Z; nothing sets a window's Z, so it is any of them, or none.            *)
Under == {w \in Registered : <<mx, my>> \in OnDisplay(WindowSurface(w))}

PickUp ==
  /\ loop = "button" /\ middle /\ hovered = NotHovered
  /\ \/ hovered' = NotHovered
     \/ \E w \in Under : hovered' = <<w, mx - surface[w][1], my - surface[w][2]>>
  /\ loop' = "draw"
  /\ UNCHANGED <<front, framebuffer, behind, mouseSave, surface, mouseAt, mx, my, middle,
                 dirty, painted, obj, old, movedMouse, kmainVars>>

(* WM_2_MoveDisplayObject begins: every window is taken away, in the order *)
(* of the list, and put down again in that order.                          *)
Drop ==
  /\ loop = "button" /\ ~middle /\ hovered # NotHovered
  /\ framebuffer' = RestoreBackground(framebuffer, MouseSurface, mouseSave)
  /\ old' = surface[hovered[1]] /\ loop' = "clear"
  /\ UNCHANGED <<front, behind, mouseSave, dirty, painted, obj, pointerVars, kmainVars>>

NoButton ==
  /\ loop = "button" /\ middle = (hovered # NotHovered)
  /\ loop' = "draw"
  /\ UNCHANGED <<front, framebuffer, behind, mouseSave, dirty, painted, obj, old, pointerVars,
                 kmainVars>>

(* The process has cleared the display, kept what is behind the cursor and *)
(* committed; kmain has not registered a window yet.                       *)
DesktopInit ==
  /\ framebuffer = [c \in Cells |-> Blank] /\ front = framebuffer
  /\ surface = [w \in Windows |-> <<0, 0>>]
  /\ behind = [w \in Windows |-> [p \in Local(Sizes[w]) |-> Junk]]
  /\ mouseAt = <<0, 0>> /\ mx = 0 /\ my = 0 /\ middle = FALSE
  /\ mouseSave = SaveBackground(framebuffer, MouseSurface, [p \in Local(CursorSize) |-> Junk])
  /\ head = Len(Order) + 1 /\ linked = FALSE /\ dirty = {} /\ painted = {}
  /\ loop = "draw" /\ obj = 0 /\ old = NoMove
  /\ hovered = NotHovered /\ movedMouse = 0

DesktopNext ==
  \/ Register \/ MarkDirty
  \/ Draw \/ TakeAway \/ TakenAway \/ PutDown \/ AllDown
  \/ MoveMouse \/ PickUp \/ Drop \/ NoButton

DesktopSpec == DesktopInit /\ [][DesktopNext]_desktopVars

-----------------------------------------------------------------------------
(* The variables of the window manager have their types. *)
DesktopTypeOK ==
  LET pixels == Windows \cup {Blank, Junk, Cursor} IN
  /\ front \in [Cells -> pixels] /\ framebuffer \in [Cells -> pixels]
  /\ \A w \in Windows : behind[w] \in [Local(Sizes[w]) -> pixels]
  /\ mouseSave \in [Local(CursorSize) -> pixels]
  /\ <<mx, my>> \in Cells /\ (hovered = NotHovered \/ hovered[1] \in Registered)
  /\ head \in 1 .. Len(Order) + 1 /\ (linked => head <= Len(Order))
  /\ Registered \subseteq dirty \cup painted /\ obj \in 0 .. Len(Order) + 1
  /\ loop \in {"draw", "clear", "place", "mouse", "button"}

(* Between the ways of changing it, the picture is complete. *)
Complete == loop \in {"draw", "mouse", "button"}

(* The screen shows the frame buffer: each way of changing it commits every*)
(* pixel it changed, at the borders and beyond them too, and also when     *)
(* kmain registers a window meanwhile.                                     *)
FrontUpToDate == Complete => front = framebuffer

(* No cursor is left behind or kept as a window's background, and once     *)
(* every window is drawn the picture is the cursor where the mouse is, and *)
(* below it the last of the windows that has a pixel there.                *)
Composed ==
  Complete =>
    \A c \in Cells :
      LET covers == {i \in head .. Len(Order) :
                       Pixel(WindowSurface(Order[i]), c) \in Drawn(Sizes[Order[i]])}
      IN
      /\ framebuffer[c] = Cursor => Pixel(MouseSurface, c) \in CursorPixels
      /\ dirty = {} /\ Registered # {} =>
           /\ Pixel(MouseSurface, c) \in CursorPixels => framebuffer[c] = Cursor
           /\ framebuffer[c] # Cursor /\ covers # {} =>
                framebuffer[c] = Order[CHOOSE i \in covers : \A j \in covers : j <= i]
=============================================================================
