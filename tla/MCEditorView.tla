---------------------------- MODULE MCEditorView ----------------------------
(* The editor on two files: one of two lines, and an empty one.               *)
EXTENDS EditorView

TwoLines == <<1, 0, 1>>
EditorFiles == {TwoLines, <<>>}
=============================================================================
