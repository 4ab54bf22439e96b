----------------------------- MODULE MCEncoderMt -----------------------------
EXTENDS EncoderMt

Stream(input, errors) == [input |-> input, errors |-> errors]

(* A small stream that may fail, and one that runs around a ring of two    *)
(* buffers; two workers of which one may fail.                             *)
FinishedPlans == {<<Stream(1, 1), Stream(3, 0)>>, <<Stream(2, 1)>>}

(* A stream that fails while a worker ends its block, and another.         *)
FailedPlans == {<<Stream(2, 1), Stream(2, 0)>>}
=============================================================================
