-------------------------------- MODULE Surfaces --------------------------------
(***************************************************************************)
(* Surfaces (viv2d.c) and their dumps (write_bmp.c): how wide a row is in  *)
(* memory, how big the buffer object is, and which of its bytes a BMP file *)
(* shows where.                                                            *)
(*                                                                         *)
(* A file is its header and the number of bytes that were written behind   *)
(* it: byte k of the pixels is byte k of the mapping.  Colors are left     *)
(* out.                                                                    *)
(***************************************************************************)
EXTENDS Registers

CONSTANTS
  SurfaceIds,  \* surfaces, each with a buffer object of its own
  Kinds        \* bound: Kinds[s], the widths, heights and formats of s the client asks for

VARIABLES
  surf,  \* surf[s]: what viv2d_surface_new made, or NoSurface
  file   \* the file viv2d_surface_to_bmp wrote last, or NoFile

NoSurface == [format |-> "none"]
NoFile == [of |-> NoSurface]

\* A color format: bits per pixel, depth, and the engine's format and swizzle.
ColorFormat(bpp, depth, fmt, swizzle) ==
  [bpp |-> bpp, depth |-> depth, fmt |-> DE_FORMAT[fmt], swizzle |-> DE_SWIZZLE[swizzle]]

viv2d_color_formats ==
  [a8r8g8b8 |-> ColorFormat(32, 32, "A8R8G8B8", "ARGB"),
   x8r8g8b8 |-> ColorFormat(32, 24, "X8R8G8B8", "ARGB"),
   a8b8g8r8 |-> ColorFormat(32, 32, "A8R8G8B8", "ABGR"),
   x8b8g8r8 |-> ColorFormat(32, 24, "X8R8G8B8", "ABGR"),
   b8g8r8a8 |-> ColorFormat(32, 32, "A8R8G8B8", "BGRA"),
   b8g8r8x8 |-> ColorFormat(32, 24, "X8R8G8B8", "BGRA"),
   r5g6b5 |-> ColorFormat(16, 15, "R5G6B5", "ARGB"),
   b5g6r5 |-> ColorFormat(16, 15, "R5G6B5", "ABGR"),
   a1r5g5b5 |-> ColorFormat(16, 16, "A1R5G5B5", "ARGB"),
   x1r5g5b5 |-> ColorFormat(16, 15, "X1R5G5B5", "ARGB"),
   a1b5g5r5 |-> ColorFormat(16, 16, "A1R5G5B5", "ABGR"),
   x1b5g5r5 |-> ColorFormat(16, 15, "X1R5G5B5", "ABGR"),
   a4r4g4b4 |-> ColorFormat(16, 16, "A4R4G4B4", "ARGB"),
   x4r4g4b4 |-> ColorFormat(16, 12, "X4R4G4B4", "ARGB"),
   a4b4g4r4 |-> ColorFormat(16, 16, "A4R4G4B4", "ABGR"),
   x4b4g4r4 |-> ColorFormat(16, 12, "X4R4G4B4", "ABGR"),
   a8 |-> ColorFormat(8, 8, "A8", "ARGB")]

ASSUME SurfacesAssumption ==
  \A s \in SurfaceIds : \A k \in Kinds[s] :
    /\ k.width \in Nat \ {0} /\ k.height \in Nat \ {0}
    /\ k.format \in DOMAIN viv2d_color_formats

FormatOf(s) == viv2d_color_formats[surf[s].format]

-------------------------------------------------------------------------------
\* ALIGN(val, align), for a power of two.
ALIGN(val, align) == ((val + align - 1) \div align) * align

\* Mutant: rounded down.
PitchRoundedDown(width, bpp) == ((width * ((bpp + 7) \div 8)) \div 32) * 32

\* viv2d_pitch: the bytes of a row.
Pitch(width, bpp) == ALIGN(width * ((bpp + 7) \div 8), 32)

\* viv2d_surface_alloc, and the size viv2d_surface_new asks etna_bo_new for.
SurfaceAlloc(k) ==
  LET pitch == Pitch(k.width, viv2d_color_formats[k.format].bpp)
  IN  [width |-> k.width, height |-> k.height, format |-> k.format, pitch |-> pitch,
       size |-> pitch * k.height]

\* struct bmp_header and struct dib_header, packed.
HeaderBytes == 14
DibBytes == 108

\* bmp_header_write: a negative height turns the picture upside down.
BmpHeader(width, height, noflip) ==
  [start |-> HeaderBytes + DibBytes,
   size |-> width * height * 4 + HeaderBytes + DibBytes,
   width |-> width,
   height |-> IF noflip THEN -height ELSE height,
   data_size |-> 4 * width * height]

\* Mutant: the rows of the surface are dumped, with what is behind their pixels.
BmpDumpRows(s, mapped) ==
  [header |-> BmpHeader(surf[s].width, surf[s].height, FALSE),
   written |-> IF mapped THEN surf[s].pitch * surf[s].height ELSE 0]

\* bmp_dump32 with noflip FALSE.  Without a mapping the last write fails, and
\* the result of no write is looked at.
BmpDump(s, mapped) ==
  [header |-> BmpHeader(surf[s].width, surf[s].height, FALSE),
   written |-> IF mapped THEN surf[s].width * surf[s].height * 4 ELSE 0]

-------------------------------------------------------------------------------
SurfacesInit ==
  /\ surf = [s \in SurfaceIds |-> NoSurface]
  /\ file = NoFile

\* viv2d_surface_new.  (A failure of etna_bo_new gives a surface without a buffer
\* object, which nobody notices until it is used: the client is taken to check.)
SurfaceNew(s, k) ==
  /\ surf[s] = NoSurface
  /\ surf' = [surf EXCEPT ![s] = SurfaceAlloc(k)]
  /\ UNCHANGED file

\* viv2d_surface_to_bmp, of surfaces of 32 bits per pixel only: write_bmp.h
\* promises no other.  open or the mapping may fail.
SurfaceToBmp(s) ==
  /\ surf[s] # NoSurface
  /\ FormatOf(s).bpp = 32
  /\ \/ \E mapped \in BOOLEAN :
          file' = [of |-> surf[s], dump |-> BmpDump(s, mapped)]
     \/ UNCHANGED file
  /\ UNCHANGED surf

\* viv2d_surface_del.
SurfaceDel(s) ==
  /\ surf[s] # NoSurface
  /\ surf' = [surf EXCEPT ![s] = NoSurface]
  /\ UNCHANGED file

-------------------------------------------------------------------------------
\* A dump reads no byte behind the buffer object (viv2d.c:302 gives the dump a
\* width and a height, viv2d.c:294 made the object of pitch and height).
DumpStaysInside == file # NoFile => file.dump.written <= file.of.size

\* Where byte 0 of pixel (x, y) of a surface is, and where a reader of the file
\* finds it: rows from the bottom when the height is positive.
PixelOf(sf, x, y) == y * sf.pitch + 4 * x
PixelShown(h, x, y) ==
  LET row == IF h.height > 0 THEN y ELSE -h.height - 1 - y
  IN  4 * (row * h.width + x)

\* A dump shows the picture: (0,0) is left, bottom, as viv2d.c:25 has it, and "y
\* axis upwards", as write_bmp.h:27 has it, when rows are 32 bytes or a multiple
\* long; and what the header says is there is in the file, when mapping works.
DumpShowsPicture ==
  file # NoFile =>
    /\ file.dump.header.start + file.dump.header.data_size = file.dump.header.size
    /\ file.dump.written \in {0, file.dump.header.data_size}
    /\ file.of.width % 8 = 0 =>
         \A x \in 0 .. file.of.width - 1, y \in 0 .. file.of.height - 1 :
           PixelShown(file.dump.header, x, y) = PixelOf(file.of, x, y)
===============================================================================
