------------------------------ MODULE MCHopping ------------------------------
(***************************************************************************)
(* Lists, seeds and draws for TLC: hops of three samples, chunks of up to  *)
(* three that start and end anywhere in them.                              *)
(***************************************************************************)
EXTENDS Hopping

ThreeHops == <<10, 13, 6>>
OneHop == <<13>>

SmallHopping == [enabled |-> TRUE, type |-> "custom", freqs |-> ThreeHops,
                 pattern |-> <<>>, seed |-> 1]

SmallHoppings ==
    {SmallHopping,
     [SmallHopping EXCEPT !.enabled = FALSE],
     [SmallHopping EXCEPT !.pattern = <<6, 6, 13, 10>>],
     [SmallHopping EXCEPT !.type = "sequential"],
     [SmallHopping EXCEPT !.type = "random"],
     [SmallHopping EXCEPT !.type = "random", !.freqs = <<>>]}

SmallLists == {OneHop, <<6, 13>>}

SmallDraws == <<<<1, 0, 1, 2>>, <<2, 0, 1>>>>

=============================================================================
