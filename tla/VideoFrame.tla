----------------------------- MODULE VideoFrame -----------------------------
(***************************************************************************)
(* The planes of a video frame in memory: how many bytes a row of each     *)
(* plane has, how many rows, and where the plane starts.                   *)
(***************************************************************************)
EXTENDS Naturals, Sequences, SequencesExt

\* Of each pixel format: what width and height must be multiples of, and per
\* plane the bytes of `across' samples of a row and the rows of `down' lines.
Single(multiple, bytes, across) ==
    [width |-> multiple, height |-> 1, planes |-> <<[bytes |-> bytes, across |-> across, down |-> 1]>>]
ThreePlanes(multiple, lines, luma, chroma) ==
    [width |-> multiple, height |-> lines,
     planes |-> <<[bytes |-> luma, across |-> 1, down |-> 1],
                  [bytes |-> chroma, across |-> multiple, down |-> lines],
                  [bytes |-> chroma, across |-> multiple, down |-> lines]>>]

PixelFormats ==
    [UYVY |-> Single(2, 2, 1), RGB8 |-> Single(1, 3, 1), BGRA |-> Single(1, 4, 1), ARGB |-> Single(1, 4, 1),
     Y210 |-> Single(2, 4, 1), V210 |-> Single(6, 16, 6),
     YUV422RFC4175PG2BE10 |-> Single(2, 5, 2), YUV422RFC4175PG2BE12 |-> Single(2, 6, 2),
     YUV444RFC4175PG4BE10 |-> Single(4, 15, 4), RGBRFC4175PG4BE10 |-> Single(4, 15, 4),
     YUV444RFC4175PG2BE12 |-> Single(2, 9, 2), RGBRFC4175PG2BE12 |-> Single(2, 9, 2),
     YUV422PLANAR8 |-> ThreePlanes(2, 1, 1, 1), YUV422PLANAR10LE |-> ThreePlanes(2, 1, 2, 2),
     YUV422PLANAR12LE |-> ThreePlanes(2, 1, 2, 2), YUV422PLANAR16LE |-> ThreePlanes(2, 1, 2, 2),
     YUV444PLANAR10LE |-> ThreePlanes(1, 1, 2, 2), YUV444PLANAR12LE |-> ThreePlanes(1, 1, 2, 2),
     YUV420PLANAR8 |-> ThreePlanes(2, 2, 1, 1)]

\* fill_planes throws otherwise
FrameExists(width, height, format) ==
    /\ width > 0 /\ height > 0
    /\ width % PixelFormats[format].width = 0 /\ height % PixelFormats[format].height = 0

\* active_row_bytes (also the stride) and height_rows
RowBytes(width, plane) == (width \div plane.across) * plane.bytes
Rows(height, plane) == height \div plane.down

PlaneSizes(width, height, format) ==
    [i \in DOMAIN PixelFormats[format].planes |->
       RowBytes(width, PixelFormats[format].planes[i]) * Rows(height, PixelFormats[format].planes[i])]

\* The planes follow each other; the frame ends with the last one.
SizeBytes(width, height, format) == FoldLeft(LAMBDA a, b : a + b, 0, PlaneSizes(width, height, format))
=============================================================================
