------------------------------ MODULE MCReview ------------------------------
(***************************************************************************)
(* UnifiedDiff and Review on a small instance: a changed mode, a renamed   *)
(* file, added and deleted files, binary files, a name with " and " in it, *)
(* lines that look like others, a CR and blanks at the end of a line.      *)
(***************************************************************************)
EXTENDS Review, TLC

MCPaths == {"p", "q and r"}

MCAmbiguous == {"q and r"}

MCInputs ==
  {Change("p", "p", TRUE, FALSE, None), Change("p", "q and r", FALSE, FALSE, Similar),
   Change(None, "p", FALSE, FALSE, None), Change("q and r", None, FALSE, FALSE, None),
   Change(None, "q and r", FALSE, TRUE, None), Change("q and r", "q and r", FALSE, TRUE, None)}

MCLines ==
  {<<"context", <<" ", "\r">>>>, <<"add", <<"z", "y", "\r">>>>,
   <<"del", <<"y", " ">>>>, <<"del", <<"y", "z", "x">>>>,
   <<"del", <<"-- ", "x">>>>, <<"add", <<"++ ", "z">>>>}
=============================================================================
