-------------------------- MODULE MCImageProcessing --------------------------
(* Pipelines of one and two steps for TLC: the costliest operation, the two that *)
(* change sizes, repeats around the limits, regions inside and across the edges. *)
EXTENDS ImageProcessing

Times(n) == [kind |-> "int", times |-> n]
Rect(x, y, w, h) == [kind |-> "rect", x |-> x, y |-> y, width |-> w, height |-> h]

MCRepeats == {Times(n) : n \in {-1, 0, 1, 3, 4, 5}} \union {[kind |-> "unreadable"]}
MCRegions == {[kind |-> "none"], Rect(1, 1, 1, 2), Rect(-1, 0, 3, 1), Rect(2, 1, 2, 2)}

MCSteps ==
  [op : {"rotate", "thumbnail", "blur"}, repeat : MCRepeats, region : MCRegions,
   unfit : {FALSE}]
    \union [op : {"blur"}, repeat : {Times(0), Times(2)},
            region : {[kind |-> "none"], [kind |-> "malformed"]}, unfit : BOOLEAN]
    \union [op : {"sharpen"}, repeat : {[kind |-> "infinite"]},
            region : {[kind |-> "none"]}, unfit : {FALSE}]

CONSTANT bad_step

MCRefused == {<< >>, <<bad_step>>, <<CHOOSE s \in MCSteps : TRUE, bad_step>>}

MCSubmissions ==
  {<<s>> : s \in MCSteps} \union {<<s, t>> : s, t \in MCSteps} \union MCRefused
=============================================================================
