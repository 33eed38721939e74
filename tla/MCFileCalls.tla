----------------------------- MODULE MCFileCalls ----------------------------
(* Values of attributes: one that is recorded as it is and two longer ones *)
(* that are recorded by their digest; the second attribute's is empty.     *)
EXTENDS FileCalls

TheValues == {<<1>>, <<2, 2>>, <<3, 3, 3>>}
TheFirstValues == [source |-> {<<2, 2>>}, target |-> {<<1>>}]
TheFewValues == {<<>>}

=============================================================================
