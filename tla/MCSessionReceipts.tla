------------------------- MODULE MCSessionReceipts -------------------------
(* Small instances of SessionReceipts: the batches of two capture clients  *)
(* and of one protocol-1 producer.                                         *)
EXTENDS SessionReceipts

CONSTANTS q1, q2

Batch(s, p, n, f, t, h) ==
    [stream |-> s, protocol |-> p, seq |-> n, from |-> f, to |-> t,
     prefix |-> h, finalize |-> FALSE, snap |-> NoSnap]

Final(s, p, n, f, h) ==
    [stream |-> s, protocol |-> p, seq |-> n, from |-> f, to |-> f,
     prefix |-> h, finalize |-> TRUE, snap |-> NoSnap]

Declaring(b, s) == [b EXCEPT !.snap = s]

Snap == [to |-> 2, prefix |-> "x2"]

(* Client a, with a batch at the wrong cursor; its rival b, which would    *)
(* continue a's stream; and b's own stream, which declares a historical    *)
(* snapshot, uploads it right or wrong, and finalizes either.              *)
RivalBatches ==
    {Batch("a", 3, 0, 0, 1, "x1"), Batch("a", 3, 1, 0, 1, "x1"),
     Batch("b", 3, 1, 1, 2, "x2"), Batch("none", 1, 0, 0, 0, "l")}
    \cup
    {Declaring(b, Snap) :
        b \in {Batch("b", 2, 0, 0, 1, "x1"), Batch("b", 2, 1, 1, 2, "x2"),
               Batch("b", 2, 1, 1, 2, "y2"), Final("b", 2, 2, 2, "x2"), Final("b", 2, 2, 2, "y2")}}

=============================================================================
