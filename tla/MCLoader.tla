------------------------------ MODULE MCLoader -----------------------------
(* Programs as the linker script lays them out: debugging symbols first,   *)
(* text that begins one byte into a page, data at the next page boundary.  *)
EXTENDS Loader

Segment(v, f, m) == [va |-> v, file |-> f, mem |-> m]
Align(a) == ((a + 3) \div 4) * 4

MCPrograms ==
    {<<Segment(0, d, d), Segment(17, t, t),
       Segment(Align(17 + t), x[1], x[2])>> :
        d \in {3, 8}, t \in {4, 11},
        x \in {<<0, 3>>, <<2, 2>>, <<4, 4>>, <<4, 9>>, <<5, 6>>}}
=============================================================================
