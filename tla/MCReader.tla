------------------------------ MODULE MCReader ------------------------------
(* Instances of Reader for TLC: a conversation that grows and is answered
   while it is read and paged; clocks that move under a read; a client that
   starts and loses its stream or its Runtime; navigation between reads. *)
EXTENDS Reader

CONSTANTS A, B

TwoItems  == <<FALSE, TRUE>>
Following  == [fair |-> FALSE, fresh |-> FALSE, kinds |-> {"entry", "answer"}, subjects |-> {A}, changes |-> 3,
               losses |-> 0, failures |-> 0, navs |-> 0, pages |-> 1]
Clocks     == [fair |-> FALSE, fresh |-> FALSE, kinds |-> {"entry", "local", "configuration", "warning", "scope"}, subjects |-> {A}, changes |-> 2,
               losses |-> 0, failures |-> 0, navs |-> 0, pages |-> 0]
Losing     == [fair |-> FALSE, fresh |-> TRUE, kinds |-> {"entry", "local", "configuration"}, subjects |-> {A}, changes |-> 1,
               losses |-> 1, failures |-> 1, navs |-> 0, pages |-> 0]
Navigating == [fair |-> FALSE, fresh |-> FALSE, kinds |-> {"entry", "answer"}, subjects |-> {A}, changes |-> 1,
               losses |-> 0, failures |-> 1, navs |-> 2, pages |-> 1]
Settling   == [fair |-> TRUE, fresh |-> TRUE, kinds |-> {"configuration"}, subjects |-> {A}, changes |-> 1,
               losses |-> 1, failures |-> 0, navs |-> 0, pages |-> 0]
MCScopes == {Following, Clocks, Losing, Navigating, Settling}
=============================================================================
