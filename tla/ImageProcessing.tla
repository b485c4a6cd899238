--------------------------- MODULE ImageProcessing ---------------------------
(***************************************************************************)
(* One pipeline of image operations, as the API and the worker each read   *)
(* it.  The API parses it and weighs it to choose a list (parse_pipeline   *)
(* and is_heavy_pipeline of api/app/main.py); the worker carries it out    *)
(* step by step (process_image of worker/app/image_processor.py).  They    *)
(* read "repeat" and "region" independently.                               *)
(*                                                                         *)
(* Costs are counted in fifths, because a step with a region weighs 0.2 of *)
(* one without; the code adds them up as floats, whose rounding is not     *)
(* modelled.  An image is its size and the set of its pixels that may      *)
(* differ from the original.  Pillow is modelled by the sizes its          *)
(* operations return.                                                      *)
(***************************************************************************)
EXTENDS Integers, Sequences, FiniteSetsExt

CONSTANTS
  Submissions,    \* what clients send as pipelines
  BadStep,        \* a step that parse_pipeline does not accept
  Width, Height,  \* the size of the uploaded image
  Box             \* the side of the box a thumbnail is fitted into

\* What the two sides can tell of the JSON value of "repeat": an integer (an absent
\* repeat is 1), a value int() rejects, or a number too large for int().
Repeat == [kind : {"int"}, times : Int] \union [kind : {"unreadable", "infinite"}]

\* A region with all four numbers, none (absent or null), or any
\* other value, which the worker cannot use; a rectangle without area is left out.
Region == [kind : {"none", "malformed"}]
            \union [kind : {"rect"}, x : Int, y : Int, width : Nat \ {0}, height : Nat \ {0}]

Operations == {"grayscale", "thumbnail", "blur", "rotate", "sharpen", "contrast", "emboss",
               "edge_detect"}

\* unfit: the operation does not take the other parameters of the step.
Step == [op : Operations, repeat : Repeat, region : Region, unfit : BOOLEAN]

ASSUME ProcessingAssumption ==
  /\ Submissions \subseteq Seq(Step \union {BadStep})
  /\ BadStep \notin Step
  /\ Width \in Nat \ {0} /\ Height \in Nat \ {0} /\ Box \in Nat \ {0}

VARIABLES
  pipeline,   \* the pipeline of the job, empty until it is parsed
  queue,      \* the list the API chose, "none" before that
  phase,      \* where the job is
  current,    \* the step the worker is at
  runsLeft,   \* the runs of that step still to do
  image,      \* current_image
  work        \* what the worker has spent, in fifths of the API's cost unit

vars == <<pipeline, queue, phase, current, runsLeft, image, work>>

Phases == {"received", "submitted", "refused", "next_step", "running", "done", "failed"}
Pixels == Int \X Int
Images == [width : Nat \ {0}, height : Nat \ {0}, touched : SUBSET Pixels]

TypeOK ==
  /\ pipeline \in Seq(Step)
  /\ queue \in {"none", "jobs:default", "jobs:heavy"}
  /\ phase \in Phases
  /\ current \in Nat \ {0}
  /\ phase = "received" => pipeline = << >>
  /\ phase = "running" => current \in DOMAIN pipeline
  /\ runsLeft \in Int
  /\ image \in Images
  /\ work \in Nat

Init ==
  /\ pipeline = << >>
  /\ queue = "none"
  /\ phase = "received"
  /\ current = 1
  /\ runsLeft = 0
  /\ image = [width |-> Width, height |-> Height, touched |-> {}]
  /\ work = 0

-----------------------------------------------------------------------------
(* The API parses and weighs the pipeline *)

\* Mutant: only the first step is looked at.
ParseFirstStep ==
  /\ phase = "received"
  /\ \E raw \in Submissions :
       LET accepted == raw # << >> /\ raw[1] # BadStep IN
       \/ accepted /\ pipeline' = raw /\ phase' = "submitted"
       \/ ~accepted /\ phase' = "refused" /\ UNCHANGED pipeline
  /\ UNCHANGED <<queue, current, runsLeft, image, work>>

\* parse_pipeline.  What is not JSON or not a list goes the way of the empty list, a
\* 400; a bad step (no object, an operation or parameters it does not know) is a 400
\* or, if its operation cannot be hashed, a 500, and the steps after it do not matter.
Parse ==
  /\ phase = "received"
  /\ \E raw \in Submissions :
       LET accepted == raw # << >> /\ \A n \in DOMAIN raw : raw[n] # BadStep IN
       \/ accepted /\ pipeline' = raw /\ phase' = "submitted"
       \/ ~accepted /\ phase' = "refused" /\ UNCHANGED pipeline
  /\ UNCHANGED <<queue, current, runsLeft, image, work>>

\* OPERATION_COSTS
CostOf ==
  [rotate |-> 1, grayscale |-> 1, thumbnail |-> 4, emboss |-> 4, contrast |-> 4,
   edge_detect |-> 6, sharpen |-> 7, blur |-> 10]

\* The cost of one run of a step, in fifths.
RunCost(s) == IF s.region.kind = "none" THEN 5 * CostOf[s.op] ELSE CostOf[s.op]

\* Mutant: the repeat is taken as it is.
WeighedAsGiven(s) == IF s.repeat.kind = "int" THEN s.repeat.times ELSE 1

\* max(1, int(repeat)), and 1 when int() raises a TypeError or a ValueError
WeighedRepeat(s) ==
  IF s.repeat.kind = "int" /\ s.repeat.times > 1 THEN s.repeat.times ELSE 1

Weight(p) == SumFunction([n \in DOMAIN p |-> RunCost(p[n]) * WeighedRepeat(p[n])])

\* HEAVY_COST_THRESHOLD
HeavyThreshold == 5 * 40

\* HEAVY_REPEAT_THRESHOLD, which the code defines and never reads.
HeavyRepeatThreshold == 5

\* An OverflowError of int() is not caught and ends the request with a 500.
Classify ==
  /\ phase = "submitted"
  /\ \/ /\ \E n \in DOMAIN pipeline : pipeline[n].repeat.kind = "infinite"
        /\ phase' = "refused"
        /\ UNCHANGED queue
     \/ /\ \A n \in DOMAIN pipeline : pipeline[n].repeat.kind # "infinite"
        /\ phase' = "next_step"
        /\ queue' = IF Weight(pipeline) >= HeavyThreshold THEN "jobs:heavy" ELSE "jobs:default"
  /\ UNCHANGED <<pipeline, current, runsLeft, image, work>>

-----------------------------------------------------------------------------
(* The worker carries it out *)

\* The sizes an operation may return for an image of this size.  A rotation is by
\* a multiple of 90 degrees with or without a turn of the frame; a thumbnail fits
\* into the box and fills it in one direction, unless the image fits already.
SizesAfter(op, w, h) ==
  IF op = "rotate" THEN {<<w, h>>, <<h, w>>}
  ELSE IF op = "thumbnail" /\ (w > Box \/ h > Box)
       THEN {d \in (1..Box) \X (1..Box) : /\ d[1] = Box \/ d[2] = Box
                                          /\ d[1] <= w /\ d[2] <= h}
       ELSE {<<w, h>>}

\* An operation that returns a copy of what it was given.
Copies(op, w, h) == op = "thumbnail" /\ w <= Box /\ h <= Box

Frame(x, y, w, h) == (x .. x + w - 1) \X (y .. y + h - 1)

\* processing_function(result, **parameters) on the whole image
ApplyToImage(s) ==
  \E d \in SizesAfter(s.op, image.width, image.height) :
    image' = [width |-> d[1], height |-> d[2],
              touched |-> IF Copies(s.op, image.width, image.height)
                          THEN image.touched ELSE Frame(0, 0, d[1], d[2])]

\* Mutant: the result is pasted at the origin.
PasteAtOrigin(s) ==
  \E d \in SizesAfter(s.op, s.region.width, s.region.height) :
    image' = [image EXCEPT !.touched = @ \union
                (Frame(0, 0, d[1], d[2]) \intersect Frame(0, 0, image.width, image.height))]

\* apply_to_region: the region is cropped (beyond the image, with padding),
\* processed, and pasted into a copy of the image, where it is clipped.
ApplyToRegion(s) ==
  LET r == s.region IN
  \E d \in SizesAfter(s.op, r.width, r.height) :
    image' = [image EXCEPT !.touched =
      IF Copies(s.op, r.width, r.height) THEN @
      ELSE @ \union (Frame(r.x, r.y, d[1], d[2])
                       \intersect Frame(0, 0, image.width, image.height))]

\* Mutant: range(1, repeat).
BeginOneShort ==
  /\ phase = "next_step" /\ current <= Len(pipeline)
  /\ \/ /\ pipeline[current].repeat.kind = "int"
        /\ runsLeft' = pipeline[current].repeat.times - 1
        /\ phase' = "running"
     \/ /\ pipeline[current].repeat.kind # "int"
        /\ phase' = "failed"
        /\ UNCHANGED runsLeft
  /\ UNCHANGED <<pipeline, queue, current, image, work>>

\* apply_pipeline_step reads the parameters of the next step; int() may raise.
BeginStep ==
  /\ phase = "next_step" /\ current <= Len(pipeline)
  /\ \/ /\ pipeline[current].repeat.kind = "int"
        /\ runsLeft' = pipeline[current].repeat.times
        /\ phase' = "running"
     \/ /\ pipeline[current].repeat.kind # "int"
        /\ phase' = "failed"
        /\ UNCHANGED runsLeft
  /\ UNCHANGED <<pipeline, queue, current, image, work>>

\* One round of "for _ in range(repeat)".
RunOperation ==
  LET s == pipeline[current] IN
  /\ phase = "running" /\ runsLeft > 0
  /\ s.region.kind # "malformed" /\ ~s.unfit
  /\ \/ s.region.kind = "none" /\ ApplyToImage(s)
     \/ s.region.kind = "rect" /\ ApplyToRegion(s)
  /\ runsLeft' = runsLeft - 1
  /\ work' = work + RunCost(s)
  /\ UNCHANGED <<pipeline, queue, phase, current>>

\* A malformed region or a parameter the operation does not take raises.
OperationRaises ==
  /\ phase = "running" /\ runsLeft > 0
  /\ pipeline[current].region.kind = "malformed" \/ pipeline[current].unfit
  /\ phase' = "failed"
  /\ UNCHANGED <<pipeline, queue, current, runsLeft, image, work>>

EndStep ==
  /\ phase = "running" /\ runsLeft <= 0
  /\ current' = current + 1
  /\ phase' = "next_step"
  /\ UNCHANGED <<pipeline, queue, runsLeft, image, work>>

Finish ==
  /\ phase = "next_step" /\ current > Len(pipeline)
  /\ phase' = "done"
  /\ UNCHANGED <<pipeline, queue, current, runsLeft, image, work>>

Next ==
  \/ Parse \/ Classify
  \/ BeginStep \/ RunOperation \/ OperationRaises \/ EndStep \/ Finish

Spec == Init /\ [][Next]_vars

-----------------------------------------------------------------------------
(* Properties *)

\* A job of the default list costs its worker less than the threshold, however the
\* two sides read its repeats and whichever step raises (main.py:51-70 against
\* image_processor.py:32-48).  Light and heavy are meant as the code weighs them, by
\* cost; docs/architecture.md:298-302 has another rule, ClassifiedByRepeat.
LightJobsAreLight == queue = "jobs:default" => work < HeavyThreshold

\* A job of the heavy list that is carried out to the end has earned it, provided
\* that it asks for at least one run of each of its steps.
HeavyJobsAreHeavy ==
  /\ queue = "jobs:heavy" /\ phase = "done"
  /\ \A n \in DOMAIN pipeline : pipeline[n].repeat.times >= 1
  => work >= HeavyThreshold

\* Contradicted: "pipelines are classified as heavy if a processing step contains
\* repeat >= 5" (docs/architecture.md:298-302).  The list that the API chooses is that
\* of this rule.
ClassifiedByRepeat ==
  queue # "none" =>
    (queue = "jobs:heavy" <=> \E n \in DOMAIN pipeline :
                                WeighedRepeat(pipeline[n]) >= HeavyRepeatThreshold)

RegionOf(s) ==
  IF s.region.kind = "rect"
  THEN Frame(s.region.x, s.region.y, s.region.width, s.region.height) ELSE {}

Confined ==
  image.touched \subseteq UNION {RegionOf(pipeline[n]) : n \in DOMAIN pipeline}

\* "Only the selected area is modified while the remaining image remains unchanged"
\* (docs/architecture.md:226): for pipelines all of whose steps have a region.
RegionsConfine ==
  (\A n \in DOMAIN pipeline : pipeline[n].region.kind # "none") => Confined

\* The same for operations that do not turn the crop.
UnturnedRegionsConfine ==
  (\A n \in DOMAIN pipeline : /\ pipeline[n].region.kind # "none"
                              /\ pipeline[n].op # "rotate") => Confined
=============================================================================
