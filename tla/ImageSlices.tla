---------------------------- MODULE ImageSlices ----------------------------
(***************************************************************************)
(* The geometry of a detection: Core/detect/crop_image.cpp (the region of  *)
(* interest), Core/detect/Slice.cpp (the slices around a candidate),       *)
(* Core/detect/trtyolo_slice.cpp (boxes back in image coordinates) and     *)
(* SamSegmenter::inferFromDetections (the filter by measured size).        *)
(*                                                                         *)
(* A size is [w, h], a rectangle [x0, y0, x1, y1] without its right and    *)
(* bottom edge.  The centre of a candidate is given in half pixels, the    *)
(* finest position that decides where a slice starts.                      *)
(***************************************************************************)
EXTENDS Integers, Sequences, FiniteSets

Larger(a, b)  == IF a > b THEN a ELSE b
Smaller(a, b) == IF a < b THEN a ELSE b

\* static_cast<int> of n/2: towards zero.
Half(n) == IF n >= 0 THEN n \div 2 ELSE -((-n) \div 2)

-----------------------------------------------------------------------------
(* preprocessImage.                                                        *)

\* It throws for a region outside the image, and for a mask without circles.
CropRejected(params, size) ==
    /\ params.enable_four_side_crop
    /\ \/ params.crop_x < 0 \/ params.crop_y < 0
       \/ params.crop_width <= 0 \/ params.crop_height <= 0
       \/ params.crop_x + params.crop_width > size.w
       \/ params.crop_y + params.crop_height > size.h

MaskRejected(params) ==
    /\ params.is_qw
    /\ \/ params.circle_x1 < 0 \/ params.circle_y1 < 0
       \/ params.circle_x2 < 0 \/ params.circle_y2 < 0
       \/ params.radius <= 0

Processed(params, size) ==
    IF params.enable_four_side_crop
    THEN [w |-> params.crop_width, h |-> params.crop_height]
    ELSE size

-----------------------------------------------------------------------------
(* ImageSlicer.                                                            *)

SliceOffsets == << <<0, 0>>, <<0, -1>>, <<0, 1>>, <<-1, 0>>, <<1, 0>> >>

SlicesRejected(params) == params.slice_width <= 0 \/ params.slice_height <= 0

SliceStartByWidth(params, center, direction) ==     \* mutant: the size is not halved
    [x |-> Half(center.x2 + 2 * (direction[1] * params.slice_distance - params.slice_width)),
     y |-> Half(center.y2 + 2 * (direction[2] * params.slice_distance - params.slice_height))]

\* Where the slice around a shifted centre starts.
SliceStart(params, center, direction) ==
    [x |-> Half(center.x2 + 2 * direction[1] * params.slice_distance - params.slice_width),
     y |-> Half(center.y2 + 2 * direction[2] * params.slice_distance - params.slice_height)]

\* extractSlicesGPU: the offsets of all slices, five for each centre.
Slices(params, centers) ==
    LET n == Len(SliceOffsets)
    IN  [k \in 1..n * Len(centers) |->
            SliceStart(params, centers[((k - 1) \div n) + 1], SliceOffsets[((k - 1) % n) + 1])]

\* The part of the image that is copied into a slice; the rest stays black.
Copied(params, start, size) ==
    [x0 |-> Larger(start.x, 0), y0 |-> Larger(start.y, 0),
     x1 |-> Smaller(start.x + params.slice_width, size.w),
     y1 |-> Smaller(start.y + params.slice_height, size.h)]

Covers(rect, x, y) == x \in rect.x0..rect.x1 - 1 /\ y \in rect.y0..rect.y1 - 1

-----------------------------------------------------------------------------
(* SliceDetector::process_sliced_images.  A raw detection is [slice, class, *)
(* score, box], its box in coordinates of the slice.                       *)

Moved(box, start) ==
    [x0 |-> box.x0 + start.x, y0 |-> box.y0 + start.y,
     x1 |-> box.x1 + start.x, y1 |-> box.y1 + start.y]

\* Clamped at the left and top edge of the image, not at the others.
ToImage(box, start) ==
    LET moved == Moved(box, start)
    IN  [side \in DOMAIN moved |-> Larger(0, moved[side])]

NonEmpty(rect) == rect.x0 < rect.x1 /\ rect.y0 < rect.y1

ThresholdsRejected(params) == params.nms_threshold <= 0 \/ params.conf_threshold <= 0

ClassAllowed(params, class) ==
    params.allowed_classes = <<>> \/ \E i \in DOMAIN params.allowed_classes :
                                         params.allowed_classes[i] = class

\* What reaches the suppression of overlapping boxes.
Candidate(params, starts, raw) ==
    /\ raw.score >= params.conf_threshold
    /\ ClassAllowed(params, raw.class)
    /\ NonEmpty(ToImage(raw.box, starts[raw.slice]))

InImage(starts, raw) == [raw EXCEPT !.box = ToImage(@, starts[raw.slice])]

\* The orders in which the suppression may return the kept detections.
ByScore(raw, kept) ==
    {ids \in [1..Cardinality(kept) -> kept] : \A i, j \in DOMAIN ids :
        i < j => ids[i] # ids[j] /\ raw[ids[i]].score >= raw[ids[j]].score}

-----------------------------------------------------------------------------
(* SamSegmenter::inferFromDetections.  masks[i] is what became of the mask *)
(* of detection i: "empty", "small" (below a threshold) or "kept".         *)

\* A set of indices in the order of a loop that goes through them.
InOrder(indices) ==
    CHOOSE ids \in [1..Cardinality(indices) -> indices] :
        \A i, j \in DOMAIN ids : i < j => ids[i] < ids[j]

KeptOf(masks) == InOrder({i \in DOMAIN masks : masks[i] = "kept"})

MeasuredWithSmall(masks) ==     \* mutant: measured before the thresholds
    InOrder({i \in DOMAIN masks : masks[i] # "empty"})

\* Boxes and measures are kept in step; a measure is the index of the detection
\* whose mask it was taken on.
MeasuredOf(masks) == InOrder({i \in DOMAIN masks : masks[i] = "kept"})

Segmented(detections, masks) ==
    LET kept == KeptOf(masks)
    IN  [i \in DOMAIN kept |-> detections[kept[i]]]

Measures(detections, masks) ==
    LET measured == MeasuredOf(masks)
    IN  [i \in DOMAIN measured |-> detections[measured[i]]]
=============================================================================
