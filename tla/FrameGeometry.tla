--------------------------- MODULE FrameGeometry ---------------------------
(***************************************************************************)
(* Sizes and pixel formats of frames on their way from the display that is *)
(* asked for to the encoder that compresses them: the rectangles every     *)
(* createVirtualDisplay() computes, the conversion of pixel formats every  *)
(* minicap_<sdk>.cpp ends with, and what JpgEncoder can take.              *)
(***************************************************************************)
EXTENDS Integers

ORIENTATION_0   == 0
ORIENTATION_90  == 1
ORIENTATION_180 == 2
ORIENTATION_270 == 3

Sizes == [width : Nat, height : Nat]

Turned(size) == [width |-> size.height, height |-> size.width]

\* To half a pixel of one side, as Projection leaves it.
InProportion(size, whole) ==
  LET off == size.width * whole.height - size.height * whole.width
  IN  2 * off \in -whole.width .. whole.width \/ 2 * off \in -whole.height .. whole.height

-----------------------------------------------------------------------------
(* Faulty variants, used only to show that the properties can fail.        *)

\* A case of the switch that is missing falls through to the default.
Rects_No270(info) ==
  IF info.orientation = ORIENTATION_90
  THEN [source |-> Turned(info.real), target |-> Turned(info.desired)]
  ELSE [source |-> info.real, target |-> info.desired]

\* The rectangle to show is not turned with the one to show it in.
Rects_SourceUpright(info) ==
  IF info.orientation \in {ORIENTATION_90, ORIENTATION_270}
  THEN [source |-> info.real, target |-> Turned(info.desired)]
  ELSE [source |-> info.real, target |-> info.desired]

\* One line of a copied case names the height again.
Rects_HeightTwice(info) ==
  IF info.orientation \in {ORIENTATION_90, ORIENTATION_270}
  THEN [source |-> Turned(info.real),
        target |-> [width |-> info.desired.height, height |-> info.desired.height]]
  ELSE [source |-> info.real, target |-> info.desired]

-----------------------------------------------------------------------------

\* The part of the screen that is shown and the rectangle it is shown in: a
\* display that is turned on its side is captured on its side.
Rects(info) ==
  IF info.orientation \in {ORIENTATION_90, ORIENTATION_270}
  THEN [source |-> Turned(info.real), target |-> Turned(info.desired)]
  ELSE [source |-> info.real, target |-> info.desired]

-----------------------------------------------------------------------------

\* Minicap::Format, which names Android's formats but not all of them.
NamedFormats ==
  {"NONE", "CUSTOM", "TRANSLUCENT", "TRANSPARENT", "OPAQUE",
   "RGBA_8888", "RGBX_8888", "RGB_888", "RGB_565", "BGRA_8888",
   "RGBA_5551", "RGBA_4444"}

Formats == NamedFormats \cup {"UNKNOWN"}

\* convertFormat() of MinicapImpl
convertFormat(format) == IF format \in NamedFormats THEN format ELSE "UNKNOWN"

\* The formats JpgEncoder::convertFormat() returns for; the others throw.
EncodableFormats == {"RGBA_8888", "RGBX_8888", "RGB_888", "BGRA_8888"}

-----------------------------------------------------------------------------
(* tjBufSize() with TJSAMP_420: both sides are padded to 16 pixels.        *)

Padded(n) == 16 * ((n + 15) \div 16)

tjBufSize(size) == (3 * Padded(size.width) * Padded(size.height)) \div 2 + 2048

=============================================================================
