----------------------------- MODULE LogBridgeMC -----------------------------
(* Model values for TLC runs of LogBridge. *)
EXTENDS LogBridge

Line == <<"text", "newline">>
Part == <<"text">>
LineAndPart == <<"text", "newline", "text">>
Blank == <<"newline">>

SplitShapes == {Part, LineAndPart, Blank}
WholeLines == {Line}
FirstCall == {1}
AnyCall == {1, 2, 3}

=============================================================================
