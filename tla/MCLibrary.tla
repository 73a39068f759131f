------------------------------ MODULE MCLibrary -------------------------------
(* Two ranks share memory in which a header takes one unit, blocks are of 4   *)
(* and pages of 2; the requests are one unit, one aligned unit and one that   *)
(* is too large for a block.  The node maps 2 of its home segments at a time. *)
EXTENDS Library, TLC

Request(bytes, alignment) == [bytes |-> bytes, alignment |-> alignment]
MCRequests == {Request(1, 1), Request(1, 2), Request(4, 1)}

MapperOf(k, seg) == [kind |-> k, size |-> 10, ranks |-> 2, intra |-> 1, bs |-> 2, seg |-> seg]
MCMappers == {MapperOf("cyclic", 2), MapperOf("cyclic", 4), MapperOf("block", 2)}
MCRegions == {<<0, 2>>, <<2, 3>>, <<4, 5>>, <<8, 10>>, <<1, 5>>, <<4, 10>>}

Symmetry == Permutations(Vectors) \cup Permutations(Values) \cup Permutations(Workers)

================================================================================
