------------------------ MODULE ImageProcessingProofs ------------------------
(***************************************************************************)
(* For every pipeline and every size of image: types, and what a region    *)
(* does and does not protect.                                              *)
(***************************************************************************)
EXTENDS ImageProcessing, FoldProofs

\* The step that runs is one of the pipeline, with all its fields.
LEMMA CurrentStep ==
  ASSUME TypeOK, phase = "running"
  PROVE  pipeline[current] \in Step
BY DEF TypeOK

LEMMA CostIsNat ==
  ASSUME NEW s \in Step
  PROVE  RunCost(s) \in Nat
BY DEF RunCost, CostOf, Step, Operations

\* Every operation returns an image of at least one pixel.
LEMMA SizesArePositive ==
  ASSUME NEW op, NEW w \in Nat \ {0}, NEW h \in Nat \ {0}, NEW d \in SizesAfter(op, w, h)
  PROVE  d[1] \in Nat \ {0} /\ d[2] \in Nat \ {0}
BY ProcessingAssumption DEF SizesAfter

LEMMA FramesArePixels ==
  ASSUME NEW x \in Int, NEW y \in Int, NEW w \in Int, NEW h \in Int
  PROVE  Frame(x, y, w, h) \subseteq Pixels
BY DEF Frame, Pixels

\* Without a turn, what an operation returns fits into what it was given.
LEMMA UnturnedSizesShrink ==
  ASSUME NEW op, op # "rotate", NEW w \in Nat \ {0}, NEW h \in Nat \ {0},
         NEW d \in SizesAfter(op, w, h)
  PROVE  d[1] <= w /\ d[2] <= h
BY ProcessingAssumption DEF SizesAfter

-----------------------------------------------------------------------------
(* Types *)

LEMMA WholeImageType ==
  ASSUME image \in Images, NEW s \in Step, ApplyToImage(s)
  PROVE  image' \in Images
<1>1. PICK d \in SizesAfter(s.op, image.width, image.height) :
        image' = [width |-> d[1], height |-> d[2],
                  touched |-> IF Copies(s.op, image.width, image.height)
                              THEN image.touched ELSE Frame(0, 0, d[1], d[2])]
  BY DEF ApplyToImage
<1>2. d[1] \in Nat \ {0} /\ d[2] \in Nat \ {0}
  BY SizesArePositive DEF Images
<1>3. Frame(0, 0, d[1], d[2]) \subseteq Pixels
  BY <1>2, FramesArePixels
<1> QED BY <1>1, <1>2, <1>3 DEF Images

LEMMA RegionType ==
  ASSUME image \in Images, NEW s \in Step, ApplyToRegion(s)
  PROVE  image' \in Images
<1>1. Frame(0, 0, image.width, image.height) \subseteq Pixels
  BY FramesArePixels DEF Images
<1> QED BY <1>1 DEF ApplyToRegion, Images

\* What parse_pipeline accepts is a sequence of steps.
LEMMA ParsedType ==
  ASSUME NEW raw \in Submissions, \A n \in DOMAIN raw : raw[n] # BadStep
  PROVE  raw \in Seq(Step)
BY ProcessingAssumption

LEMMA StepType == TypeOK /\ [Next]_vars => TypeOK'
<1> SUFFICES ASSUME TypeOK, [Next]_vars PROVE TypeOK'
  OBVIOUS
<1>0. CASE Parse
  BY <1>0, ParsedType DEF Parse, TypeOK, Phases
<1>1. CASE Classify
  BY <1>1 DEF Classify, TypeOK, Phases
<1>2. CASE BeginStep
  <2>1. pipeline[current] \in Step
    BY <1>2 DEF BeginStep, TypeOK
  <2> QED BY <1>2, <2>1 DEF BeginStep, TypeOK, Phases, Step, Repeat
<1>3. CASE RunOperation
  <2> DEFINE s == pipeline[current]
  <2>1. s \in Step
    BY <1>3, CurrentStep DEF RunOperation
  <2>2. image' \in Images
    BY <1>3, <2>1, WholeImageType, RegionType DEF RunOperation, TypeOK
  <2>3. work' \in Nat /\ runsLeft' \in Int
    <3>1. RunCost(s) \in Nat
      BY <2>1, CostIsNat
    <3>2. work' = work + RunCost(s) /\ runsLeft' = runsLeft - 1
      BY <1>3 DEF RunOperation
    <3> QED BY <3>1, <3>2 DEF TypeOK
  <2> QED BY <1>3, <2>2, <2>3 DEF RunOperation, TypeOK
<1>4. CASE OperationRaises
  BY <1>4 DEF OperationRaises, TypeOK, Phases
<1>5. CASE EndStep
  BY <1>5 DEF EndStep, TypeOK, Phases
<1>6. CASE Finish
  BY <1>6 DEF Finish, TypeOK, Phases
<1>7. CASE UNCHANGED vars
  BY <1>7 DEF vars, TypeOK
<1> QED BY <1>0, <1>1, <1>2, <1>3, <1>4, <1>5, <1>6, <1>7 DEF Next

LEMMA InitType == Init => TypeOK
BY ProcessingAssumption DEF Init, TypeOK, Phases, Images

\* The type invariant of one pipeline's way through the API and the worker.
THEOREM ProcessingTypeCorrect == Spec => []TypeOK
BY InitType, StepType, PTL DEF Spec

-----------------------------------------------------------------------------
(* Regions *)

AllRegions == \A n \in DOMAIN pipeline : pipeline[n].region.kind # "none"

\* The pipeline is set once, and before that nothing has happened to the image.
LEMMA PipelineStep ==
  ASSUME TypeOK, [Next]_vars
  PROVE  pipeline' = pipeline \/ (pipeline = << >> /\ image' = image)
BY DEF Next, Parse, Classify, BeginStep, RunOperation, OperationRaises, EndStep, Finish, vars,
       TypeOK

\* A step that leaves the image alone, or applies a region of the pipeline to it.
LEMMA ImageStep ==
  ASSUME TypeOK, [Next]_vars, AllRegions, pipeline' = pipeline
  PROVE  \/ image' = image
         \/ \E n \in DOMAIN pipeline :
              pipeline[n].region.kind = "rect" /\ ApplyToRegion(pipeline[n])
<1>1. CASE RunOperation
  BY <1>1 DEF RunOperation, AllRegions, TypeOK
<1>2. CASE Parse \/ Classify \/ BeginStep \/ OperationRaises \/ EndStep \/ Finish \/ UNCHANGED vars
  BY <1>2 DEF Parse, Classify, BeginStep, OperationRaises, EndStep, Finish, vars
<1> QED BY <1>1, <1>2 DEF Next

\* What a step writes lies in its region, unless it turns the crop.
LEMMA UnturnedStep ==
  ASSUME image \in Images, NEW s \in Step, s.region.kind = "rect", s.op # "rotate",
         ApplyToRegion(s)
  PROVE  image'.touched \subseteq image.touched \union RegionOf(s)
<1> DEFINE r == s.region
<1>1. r.x \in Int /\ r.y \in Int /\ r.width \in Nat \ {0} /\ r.height \in Nat \ {0}
  BY DEF Step, Region
<1>2. PICK d \in SizesAfter(s.op, r.width, r.height) :
        image' = [image EXCEPT !.touched =
          IF Copies(s.op, r.width, r.height) THEN @
          ELSE @ \union (Frame(r.x, r.y, d[1], d[2])
                           \intersect Frame(0, 0, image.width, image.height))]
  BY DEF ApplyToRegion
<1>3. d[1] \in Nat /\ d[2] \in Nat /\ d[1] <= r.width /\ d[2] <= r.height
  BY <1>1, SizesArePositive, UnturnedSizesShrink
<1>4. Frame(r.x, r.y, d[1], d[2]) \subseteq RegionOf(s)
  BY <1>1, <1>3 DEF Frame, RegionOf
<1> QED BY <1>2, <1>4 DEF Images

\* A pipeline all of whose steps have a region and do not rotate modifies nothing
\* outside its regions, wherever they lie and however often the steps are repeated.
THEOREM UnturnedRegionsConfineAlways == Spec => []UnturnedRegionsConfine
<1>1. Init => UnturnedRegionsConfine
  BY DEF Init, UnturnedRegionsConfine, Confined
<1>2. TypeOK /\ UnturnedRegionsConfine /\ [Next]_vars => UnturnedRegionsConfine'
  <2> DEFINE Unturned == \A n \in DOMAIN pipeline : pipeline[n].op # "rotate"
  <2> SUFFICES ASSUME TypeOK, UnturnedRegionsConfine, [Next]_vars, AllRegions', Unturned'
               PROVE  Confined'
    BY DEF UnturnedRegionsConfine, AllRegions
  <2>1. AllRegions /\ Unturned
    BY PipelineStep DEF AllRegions
  <2>2. Confined
    BY <2>1 DEF UnturnedRegionsConfine, AllRegions
  <2>3. CASE pipeline = << >> /\ image' = image
    BY <2>2, <2>3 DEF Confined
  <2>4. CASE pipeline' = pipeline /\ image' = image
    BY <2>2, <2>4 DEF Confined
  <2>5. ASSUME pipeline' = pipeline, NEW n \in DOMAIN pipeline, pipeline[n].region.kind = "rect",
               ApplyToRegion(pipeline[n])
        PROVE  Confined'
    <3>1. pipeline[n] \in Step /\ image \in Images
      BY DEF TypeOK
    <3>2. image'.touched \subseteq image.touched \union RegionOf(pipeline[n])
      BY <2>1, <2>5, <3>1, UnturnedStep
    <3> QED BY <2>2, <2>5, <3>2 DEF Confined
  <2> QED BY <2>1, <2>3, <2>4, <2>5, PipelineStep, ImageStep
<1> QED BY <1>1, <1>2, ProcessingTypeCorrect, PTL DEF Spec

-----------------------------------------------------------------------------
(* Costs *)

\* What the API counts for each step, and for the first k.
StepWeights == [n \in DOMAIN pipeline |-> RunCost(pipeline[n]) * WeighedRepeat(pipeline[n])]
WeightUpTo(k) == SumFunctionOnSet(StepWeights, 1 .. k)

\* What the current step has still to cost.
Rest == IF runsLeft > 0 THEN RunCost(pipeline[current]) * runsLeft ELSE 0

\* Every step asks for a run: then the API counts just the runs the worker makes.
AllAsked ==
  \A n \in DOMAIN pipeline : pipeline[n].repeat.kind = "int" /\ pipeline[n].repeat.times >= 1

\* The worker never gets ahead of what the API counted for the steps it has begun.
WorkInv ==
  /\ phase \in {"received", "submitted", "refused"} => work = 0 /\ current = 1 /\ queue = "none"
  /\ queue = "jobs:default" => Weight(pipeline) < HeavyThreshold
  /\ queue = "jobs:heavy" => Weight(pipeline) >= HeavyThreshold
  /\ phase \in {"next_step", "running", "done"} =>
       \A n \in DOMAIN pipeline : n < current => pipeline[n].repeat.kind = "int"
  /\ phase = "running" => pipeline[current].repeat.kind = "int"
  /\ phase = "done" => current > Len(pipeline)
  /\ phase = "next_step" =>
       /\ current - 1 <= Len(pipeline)
       /\ work <= WeightUpTo(current - 1)
       /\ AllAsked => work = WeightUpTo(current - 1)
  /\ phase = "running" =>
       /\ work + Rest <= WeightUpTo(current)
       /\ AllAsked => work + Rest = WeightUpTo(current)
  /\ phase \in {"done", "failed"} => work <= Weight(pipeline)
  /\ phase = "done" /\ AllAsked => work = Weight(pipeline)

LEMMA Product ==
  ASSUME NEW c \in Nat, NEW n \in Int
  PROVE  c * n \in Int /\ c * (n - 1) = c * n - c /\ c * 1 = c /\ (n >= 0 => c * n \in Nat)
OBVIOUS

LEMMA WeightOfStep ==
  ASSUME NEW s \in Step
  PROVE  /\ RunCost(s) \in Nat /\ WeighedRepeat(s) \in Nat \ {0}
         /\ RunCost(s) * WeighedRepeat(s) \in Nat
<1>1. RunCost(s) \in Nat
  BY CostIsNat
<1>2. WeighedRepeat(s) \in Nat \ {0}
  BY DEF WeighedRepeat, Step, Repeat
<1> QED BY <1>1, <1>2, Product

\* The weight of a pipeline, step after step.
LEMMA WeightFacts ==
  ASSUME TypeOK
  PROVE  /\ WeightUpTo(0) = 0
         /\ \A k \in 1 .. Len(pipeline) :
              /\ WeightUpTo(k - 1) \in Nat /\ StepWeights[k] \in Nat
              /\ WeightUpTo(k) = StepWeights[k] + WeightUpTo(k - 1)
         /\ \A k \in 0 .. Len(pipeline) :
              WeightUpTo(k) \in Nat /\ WeightUpTo(k) <= Weight(pipeline)
         /\ Weight(pipeline) = WeightUpTo(Len(pipeline))
<1> DEFINE D == 1 .. Len(pipeline)
<1>1. DOMAIN pipeline = D /\ Len(pipeline) \in Nat /\ DOMAIN StepWeights = D
  BY DEF TypeOK, StepWeights
<1>2. \A n \in D : StepWeights[n] \in Nat
  <2> SUFFICES ASSUME NEW n \in D PROVE StepWeights[n] \in Nat
    OBVIOUS
  <2>1. pipeline[n] \in Step
    BY <1>1 DEF TypeOK
  <2> QED BY <1>1, <2>1, WeightOfStep DEF StepWeights
<1>3. \A k \in 0 .. Len(pipeline) : 1 .. k \in SUBSET D /\ IsFiniteSet(1 .. k)
  BY <1>1, FS_Interval
<1>4. Weight(pipeline) = SumFunctionOnSet(StepWeights, D)
  BY <1>1 DEF Weight, SumFunction, StepWeights
<1>5. \A k \in 0 .. Len(pipeline) : WeightUpTo(k) \in Nat /\ WeightUpTo(k) <= Weight(pipeline)
  <2>1. IsFiniteSet(D)
    BY <1>1, FS_Interval
  <2>2. \A T \in SUBSET D : /\ SumFunctionOnSet(StepWeights, T) \in Nat
                            /\ SumFunctionOnSet(StepWeights, T) <= SumFunctionOnSet(StepWeights, D)
    BY <1>2, <2>1, SumGrows
  <2> QED BY <1>3, <1>4, <2>2 DEF WeightUpTo
<1>6. WeightUpTo(0) = 0
  <2>1. 1 .. 0 = {} /\ IsFiniteSet({})
    BY FS_EmptySet
  <2>2. \A x \in {} : StepWeights[x] \in Int
    OBVIOUS
  <2> QED BY <2>1, <2>2, SumOneOut DEF WeightUpTo
<1>7. ASSUME NEW k \in D PROVE WeightUpTo(k) = StepWeights[k] + WeightUpTo(k - 1)
  <2>1. k \in 1 .. k /\ (1 .. k) \ {k} = 1 .. k - 1 /\ IsFiniteSet(1 .. k)
    BY <1>1, <1>3
  <2>2. \A x \in 1 .. k : StepWeights[x] \in Int
    BY <1>1, <1>2
  <2>3. SumFunctionOnSet(StepWeights, 1 .. k)
          = StepWeights[k] + SumFunctionOnSet(StepWeights, (1 .. k) \ {k})
    BY <2>1, <2>2, SumRemove
  <2> QED BY <2>1, <2>3, Zenon DEF WeightUpTo
<1>8. \A k \in D : k - 1 \in 0 .. Len(pipeline)
  BY <1>1
<1>9. Weight(pipeline) = WeightUpTo(Len(pipeline))
  BY <1>4 DEF WeightUpTo
<1> QED BY <1>2, <1>5, <1>6, <1>7, <1>8, <1>9

\* Only Parse touches the pipeline.
LEMMA SameWeights ==
  ASSUME UNCHANGED pipeline
  PROVE  /\ StepWeights' = StepWeights /\ AllAsked' = AllAsked
         /\ Weight(pipeline)' = Weight(pipeline)
         /\ \A k : WeightUpTo(k)' = WeightUpTo(k)
BY DEF StepWeights, AllAsked, WeightUpTo

LEMMA WorkStep ==
  ASSUME TypeOK, WorkInv, [Next]_vars
  PROVE  WorkInv'
<1>0. /\ work \in Nat /\ current \in Nat \ {0} /\ runsLeft \in Int
      /\ Len(pipeline) \in Nat /\ DOMAIN pipeline = 1 .. Len(pipeline)
  BY DEF TypeOK
<1>1. CASE Parse
  BY <1>1 DEF Parse, WorkInv
<1>2. CASE Classify
  <2>1. UNCHANGED pipeline /\ work = 0 /\ current = 1 /\ queue = "none"
    BY <1>2 DEF Classify, WorkInv
  <2>2. WeightUpTo(0) = 0 /\ Weight(pipeline) \in Nat
    BY WeightFacts, <1>0
  <2> QED BY <1>0, <1>2, <2>1, <2>2, SameWeights DEF Classify, WorkInv, HeavyThreshold
<1>3. CASE BeginStep
  <2> DEFINE s == pipeline[current]
  <2>1. UNCHANGED <<pipeline, queue, current, work>> /\ phase = "next_step" /\ current \in 1 .. Len(pipeline)
    BY <1>0, <1>3 DEF BeginStep
  <2>2. s \in Step
    BY <1>0, <2>1 DEF TypeOK
  <2>3. /\ WeightUpTo(current) = RunCost(s) * WeighedRepeat(s) + WeightUpTo(current - 1)
        /\ WeightUpTo(current - 1) \in Nat /\ WeightUpTo(current) \in Nat
        /\ WeightUpTo(current) <= Weight(pipeline) /\ Weight(pipeline) \in Nat
    BY <1>0, <2>1, WeightFacts DEF StepWeights
  <2>4. work <= WeightUpTo(current - 1) /\ (AllAsked => work = WeightUpTo(current - 1))
    BY <2>1 DEF WorkInv
  <2>5. CASE s.repeat.kind = "int"
    <3>1. phase' = "running" /\ runsLeft' = s.repeat.times
      BY <1>3, <2>5 DEF BeginStep
    <3>2. Rest' <= RunCost(s) * WeighedRepeat(s) /\ Rest' \in Nat
      BY <2>1, <2>2, <2>5, <3>1, WeightOfStep, Product DEF Rest, WeighedRepeat, Step, Repeat
    <3>3. AllAsked => Rest' = RunCost(s) * WeighedRepeat(s)
      BY <1>0, <2>1, <2>2, <2>5, <3>1, WeightOfStep, Product DEF Rest, WeighedRepeat, Step, Repeat, AllAsked
    <3>4. RunCost(s) * WeighedRepeat(s) \in Nat
      BY <2>2, WeightOfStep
    <3>5. /\ work + Rest' <= WeightUpTo(current)
          /\ AllAsked => work + Rest' = WeightUpTo(current)
      BY <1>0, <2>3, <2>4, <3>2, <3>3, <3>4
    <3> QED BY <2>1, <2>5, <3>1, <3>5, SameWeights DEF WorkInv
  <2>6. CASE s.repeat.kind # "int"
    <3>1. phase' = "failed"
      BY <1>3, <2>6 DEF BeginStep
    <3>2. work <= Weight(pipeline)
      <4>1. RunCost(s) * WeighedRepeat(s) \in Nat
        BY <2>2, WeightOfStep
      <4> QED BY <1>0, <2>3, <2>4, <4>1
    <3> QED BY <2>1, <3>1, <3>2, SameWeights DEF WorkInv
  <2> QED BY <2>5, <2>6
<1>4. CASE RunOperation
  <2> DEFINE c == RunCost(pipeline[current])
  <2>1. /\ UNCHANGED <<pipeline, queue, phase, current>> /\ phase = "running"
        /\ runsLeft > 0 /\ runsLeft' = runsLeft - 1 /\ work' = work + c
    BY <1>4 DEF RunOperation
  <2>2. c \in Nat
    BY <2>1, CurrentStep, CostIsNat
  <2>3. Rest = c * runsLeft /\ Rest' = IF runsLeft - 1 > 0 THEN c * (runsLeft - 1) ELSE 0
    BY <2>1 DEF Rest
  <2> HIDE DEF c
  <2>4. work' + Rest' = work + Rest
    <3>1. c * runsLeft \in Int /\ c * (runsLeft - 1) = c * runsLeft - c /\ c * 1 = c
      BY <1>0, <2>2, Product
    <3>2. CASE runsLeft = 1
      BY <1>0, <2>1, <2>2, <2>3, <3>1, <3>2
    <3>3. CASE runsLeft # 1
      BY <1>0, <2>1, <2>2, <2>3, <3>1, <3>3
    <3> QED BY <3>2, <3>3
  <2> QED BY <2>1, <2>4, SameWeights DEF WorkInv
<1>5. CASE OperationRaises
  <2>1. UNCHANGED <<pipeline, queue, current, work>> /\ phase = "running" /\ phase' = "failed"
    BY <1>5 DEF OperationRaises
  <2>2. current \in 1 .. Len(pipeline) /\ Rest \in Nat
    <3>1. RunCost(pipeline[current]) \in Nat
      BY <2>1, CurrentStep, CostIsNat
    <3> QED BY <1>0, <2>1, <3>1, Product DEF TypeOK, Rest
  <2>3. WeightUpTo(current) \in Nat /\ WeightUpTo(current) <= Weight(pipeline) /\ Weight(pipeline) \in Nat
    BY <1>0, <2>2, WeightFacts
  <2>4. work + Rest <= WeightUpTo(current)
    BY <2>1 DEF WorkInv
  <2>5. work <= Weight(pipeline)
    BY <1>0, <2>2, <2>3, <2>4
  <2> QED BY <2>1, <2>5, SameWeights DEF WorkInv
<1>6. CASE EndStep
  <2>1. /\ UNCHANGED <<pipeline, queue, work>> /\ phase = "running" /\ phase' = "next_step"
        /\ current' = current + 1 /\ runsLeft <= 0
    BY <1>6 DEF EndStep
  <2>2. Rest = 0 /\ current \in 1 .. Len(pipeline) /\ current' - 1 = current
    BY <1>0, <2>1 DEF Rest, TypeOK
  <2>3. WeightUpTo(current - 1)' = WeightUpTo(current)
    BY <2>1, <2>2, SameWeights, Zenon DEF WeightUpTo
  <2>4. \A n \in DOMAIN pipeline : n < current' => pipeline[n].repeat.kind = "int"
    BY <1>0, <2>1, <2>2 DEF WorkInv
  <2>5. work <= WeightUpTo(current) /\ (AllAsked => work = WeightUpTo(current))
    BY <1>0, <2>1, <2>2 DEF WorkInv
  <2> QED BY <1>0, <2>1, <2>2, <2>3, <2>4, <2>5, SameWeights DEF WorkInv
<1>7. CASE Finish
  <2>1. UNCHANGED <<pipeline, queue, current, work>> /\ phase = "next_step" /\ phase' = "done"
        /\ current = Len(pipeline) + 1
    BY <1>0, <1>7 DEF Finish, WorkInv
  <2>2. Weight(pipeline) = WeightUpTo(current - 1)
    BY <1>0, <2>1, WeightFacts
  <2> QED BY <1>0, <2>1, <2>2, SameWeights DEF WorkInv
<1>8. CASE UNCHANGED vars
  <2>1. Rest' = Rest
    BY <1>8 DEF vars, Rest
  <2> QED BY <1>8, <2>1, SameWeights DEF vars, WorkInv
<1> QED BY <1>1, <1>2, <1>3, <1>4, <1>5, <1>6, <1>7, <1>8 DEF Next

LEMMA WorkInvariant == Spec => [](TypeOK /\ WorkInv)
<1>1. Init => WorkInv
  BY DEF Init, WorkInv
<1> QED BY <1>1, WorkStep, ProcessingTypeCorrect, PTL DEF Spec

\* For every pipeline: a job of the default list never costs its worker the threshold,
\* whatever its repeats and regions look like and wherever it fails.
THEOREM LightJobsAreLightAlways == Spec => []LightJobsAreLight
<1>1. TypeOK /\ WorkInv => LightJobsAreLight
  <2> SUFFICES ASSUME TypeOK, WorkInv, queue = "jobs:default" PROVE work < HeavyThreshold
    BY DEF LightJobsAreLight
  <2>1. Weight(pipeline) < HeavyThreshold /\ Weight(pipeline) \in Nat /\ work \in Nat
    BY WeightFacts DEF WorkInv, TypeOK
  <2>2. work <= Weight(pipeline)
    <3>1. CASE phase = "next_step"
      <4>1. current - 1 \in 0 .. Len(pipeline) /\ work <= WeightUpTo(current - 1)
        BY <3>1 DEF WorkInv, TypeOK
      <4> QED BY <2>1, <4>1, WeightFacts
    <3>2. CASE phase = "running"
      <4>1. current \in 1 .. Len(pipeline) /\ current \in 0 .. Len(pipeline) /\ Rest \in Nat
        <5>1. RunCost(pipeline[current]) \in Nat
          BY <3>2, CurrentStep, CostIsNat
        <5> QED BY <3>2, <5>1, Product DEF TypeOK, Rest
      <4>2. WeightUpTo(current) \in Nat /\ WeightUpTo(current) <= Weight(pipeline)
        BY <4>1, WeightFacts
      <4>3. work + Rest <= WeightUpTo(current)
        BY <3>2 DEF WorkInv
      <4> QED BY <2>1, <4>1, <4>2, <4>3
    <3>3. CASE phase \in {"done", "failed"}
      BY <3>3 DEF WorkInv
    <3>4. phase \notin {"received", "submitted", "refused"}
      BY DEF WorkInv
    <3> QED BY <3>1, <3>2, <3>3, <3>4 DEF TypeOK, Phases
  <2> QED BY <2>1, <2>2 DEF HeavyThreshold
<1> QED BY <1>1, WorkInvariant, PTL

\* For every pipeline: a job of the heavy list that ran to its end, with at least one
\* run asked of each step, has cost the threshold or more.
THEOREM HeavyJobsAreHeavyAlways == Spec => []HeavyJobsAreHeavy
<1>1. TypeOK /\ WorkInv => HeavyJobsAreHeavy
  <2> SUFFICES ASSUME TypeOK, WorkInv, queue = "jobs:heavy", phase = "done",
                      \A n \in DOMAIN pipeline : pipeline[n].repeat.times >= 1
               PROVE  work >= HeavyThreshold
    BY DEF HeavyJobsAreHeavy
  <2>1. \A n \in DOMAIN pipeline : n < current
    BY DEF WorkInv, TypeOK
  <2>2. AllAsked
    BY <2>1 DEF WorkInv, AllAsked
  <2> QED BY <2>2 DEF WorkInv
<1> QED BY <1>1, WorkInvariant, PTL

=============================================================================
