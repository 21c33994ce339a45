------------------------------- MODULE MCWire --------------------------------
(* Every address of both families, the first values beyond each limit, a     *)
(* value that is no integer and an unknown type; and commands at the edges   *)
(* of their ranges with all lines that are one edit away from them.          *)
EXTENDS Wire

MCNumbers == (-1..32) \cup {NotAnInt}
MCEntered == {"rev_008345", "pollin_2605", "rev"} \X MCNumbers \X MCNumbers
               \X {"on", "off"}

MCBytes == {"0", "1", "2", "9", "F", "f", " ", "r", "-"}

MCSeeds ==
  {Render(a) : a \in {<<0, 3, 2, 1>>, <<1, 31, 31, 0>>, <<1, 17, 9, 1>>}}
  \cup {RenderRaw(w, p) :
          w \in {<<"1">>, [i \in 1..12 |-> "F"], <<"0", "F", "1", "1">>},
          p \in {50, 350, 2000}}
  \cup {<<"4", "2", "9", "4", "9", "6", "7", "2", "9", "6", " ",
          "3", " ", "2", " ", "1">>}   \* 2^32 + 0 in the first field
=============================================================================
