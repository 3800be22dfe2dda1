---------------------------- MODULE MCRichMode ----------------------------
EXTENDS RichMode

(* Four starts: one on each console kind, a return to the first after a  *)
(* toggle, and one more after an interrupted write.                       *)
MCMaxStarts == 4
=============================================================================
