------------------------------ MODULE MCEngine ------------------------------
(* Engine for TLC: requests that are unreadable, executed, or rejected for their *)
(* language or their code, on one subject or the other.                          *)
EXTENDS Engine

Plain == [subject |-> CompilerSubject, json |-> TRUE, base64 |-> TRUE,
          language |-> "py", long |-> FALSE, hits |-> {}]

Requests ==
  {Plain,
   [Plain EXCEPT !.json = FALSE],
   [Plain EXCEPT !.language = "rust"],
   [Plain EXCEPT !.subject = ProblemSubject, !.language = "c++"],
   [Plain EXCEPT !.subject = ProblemSubject, !.hits = {"forkBombs"}]}
=============================================================================
