----------------------------- MODULE FaceDetection -----------------------------
(***************************************************************************)
(* How SCRFD's raw boxes become the faces of one image                     *)
(* (ml/detection/scrfd.py, ml/detection/face_cropper.py).  The network is  *)
(* run at two input sizes; what it answers is an arbitrary set of boxes.   *)
(* Boxes share one row of pixels, so that a box is an interval and its     *)
(* area a length: suppression, clipping and the distance to the middle of  *)
(* the image work on them as they do on rectangles of equal height.        *)
(***************************************************************************)
EXTENDS Integers, FiniteSets

CONSTANTS
    Width,      \* pixels of a row of the image
    TopScore,   \* scores are 0..TopScore; no two boxes of an image have the same
    MaxBoxes    \* bound on the boxes of an image

ASSUME DetectionAssumption == Width \in Nat \ {0} /\ TopScore \in Nat /\ MaxBoxes \in Nat

(* det_thresh: a box of score 0 is below it. *)
DetThresh == 1

Scale == {"large", "small"}     \* input_sizes [640, 128]
Score == 0..TopScore

(* Boxes may reach beyond the image: the network sees it with a black margin. *)
Span == {s \in (-1..Width) \X (0..(Width + 1)) : s[1] < s[2]}

(* An image as the network answers it: at most one box of each of these scores, and *)
(* no more than MaxBoxes.                                                           *)
Image(scores) ==
    UNION {{{[x1 |-> f[s][1][1], x2 |-> f[s][1][2], score |-> s, scale |-> f[s][2]] : s \in chosen} :
               f \in [chosen -> Span \X Scale]} :
              chosen \in {c \in SUBSET scores : Cardinality(c) <= MaxBoxes}}

------------------------------------------------------------------------------
(* Lengths count both ends, as the + 1 of the code does. *)
Length(b) == b.x2 - b.x1 + 1

Common(a, b) ==
    LET left  == IF a.x1 > b.x1 THEN a.x1 ELSE b.x1
        right == IF a.x2 < b.x2 THEN a.x2 ELSE b.x2
    IN  IF right >= left THEN right - left + 1 ELSE 0

(* Their intersection over union is above nms_thresh, 0.4. *)
Overlaps(a, b) ==
    5 * Common(a, b) > 2 * (Length(a) + Length(b) - Common(a, b))

Best(boxes) == CHOOSE b \in boxes : \A c \in boxes : c.score <= b.score

(* Greedy suppression: the best box stays, what overlaps it goes, and so on. *)
Nms(boxes) ==
    LET keep[rest \in SUBSET boxes] ==
            IF rest = {} THEN {}
            ELSE LET top == Best(rest)
                 IN  {top} \cup keep[{b \in rest \ {top} : ~Overlaps(top, b)}]
    IN  keep[boxes]

(* One scale: boxes of at least the threshold, suppressed. *)
Positive(image)         == {b \in image : b.score >= DetThresh}
DetectAt(image, scale)  == Nms({b \in Positive(image) : b.scale = scale})

(* Mutant: the boxes of the two scales are only put together. *)
AutodetectUnmerged(image) == DetectAt(image, "large") \cup DetectAt(image, "small")

(* Both scales, suppressed again together. *)
Autodetect(image) == Nms(DetectAt(image, "large") \cup DetectAt(image, "small"))

------------------------------------------------------------------------------
Clip(x) == IF x < 0 THEN 0 ELSE IF x > Width THEN Width ELSE x

(* A DetectedFace: its box is clipped; its nose, if the model finds landmarks, is not. *)
Face(b, landmarks) ==
    LET left  == Clip(b.x1)
        width == IF Clip(b.x2) > left THEN Clip(b.x2) - left ELSE 0
    IN  [left |-> left, width |-> width, score |-> b.score,
         middle |-> IF landmarks THEN b.x1 + b.x2        \* twice the position
                    ELSE 2 * left + width]

Faces(boxes, landmarks) == {Face(b, landmarks) : b \in boxes}

FromCentre(f) == IF f.middle >= Width THEN f.middle - Width ELSE Width - f.middle

(* The face nearest to the middle of the image, the better one of two as near. *)
SelectPrimary(faces) ==
    CHOOSE f \in faces : \A g \in faces :
        \/ FromCentre(f) < FromCentre(g)
        \/ FromCentre(f) = FromCentre(g) /\ g.score <= f.score

------------------------------------------------------------------------------
(* What the boxes kept of an image must be, whatever suppression computes: no two *)
(* are one face; a box is left out only for a better one it overlaps; and one     *)
(* that overlaps none of those kept was dropped at its own scale for a box that   *)
(* the other scale's face then took away.                                         *)
Suppressed(b, boxes) == \E c \in boxes : c.score > b.score /\ Overlaps(c, b)

IsDetection(kept, image) ==
    /\ kept \subseteq Positive(image)
    /\ \A a, b \in kept : a # b => ~Overlaps(a, b)
    /\ \A b \in Positive(image) \ kept :
        \/ Suppressed(b, kept)
        \/ \E c \in Positive(image) \ kept :
            /\ c.scale = b.scale /\ c.score > b.score /\ Overlaps(c, b)
            /\ \E d \in kept : d.scale # c.scale /\ d.score > c.score /\ Overlaps(d, c)
==============================================================================
