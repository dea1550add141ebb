---------------------------- MODULE MCGraphAlloc ----------------------------
(* Instances of the graph allocator for TLC; a tensor is small or large, an  *)
(* input has an address of the allocator, a weight has data of its own.  Two *)
(* large inputs fill a chunk.  From pair to pair the leaf at an index        *)
(* shrinks, grows, or becomes one that needs an address, as a plan that is   *)
(* bound by index has to bear; beside a weight the input may become smaller  *)
(* than the result that was planned in its place.                            *)
EXTENDS GraphAlloc

SmallAndLarge == <<1, 2>>
Input(layout)  == [layout |-> layout, ext |-> FALSE]
Weight(layout) == [layout |-> layout, ext |-> TRUE]
InputsAndWeights ==
    {<<Weight(2), Input(2)>>, <<Weight(2), Input(1)>>,
     <<Input(2), Input(2)>>, <<Input(2), Input(1)>>}
=============================================================================
