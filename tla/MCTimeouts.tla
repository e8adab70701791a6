------------------------------ MODULE MCTimeouts ------------------------------
(* Eight bits instead of 64, and six nanoseconds in a second.                *)
EXTENDS Timeouts

MCAsked == {-128, -43, -42, -21, -1, 0, 1, 2, 18, 19, 42, 43, 64, 127}
MCOffered == {1, 2}

==============================================================================
