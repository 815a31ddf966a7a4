--------------------------- MODULE MCCaptureLoop ---------------------------
(* A small CaptureLoop: at most two blobs move at a time, on a road of six *)
(* places, in the order find_motion happens to list them.                  *)
EXTENDS CaptureLoop

Left == [x |-> 0, area |-> 1]
Middle == [x |-> 1, area |-> 2]
Right == [x |-> 5, area |-> 2]

MCViews == {<<>>, <<Left>>, <<Right>>, <<Left, Middle>>, <<Right, Left>>}
=============================================================================
