-------------------------- MODULE CompilerService --------------------------
(***************************************************************************)
(* service/service.go, internal/sanitize.go, executor/config.go: what      *)
(* happens to a request before the pool sees it.                           *)
(*                                                                         *)
(* A request is a record: its subject; whether its JSON parses; whether    *)
(* its code is base64; its language as the client spells it (in lower      *)
(* case: ToLower comes first); whether the decoded code is longer than     *)
(* 10000 bytes; and the names of the pattern categories that match it.     *)
(***************************************************************************)
CONSTANTS
  CompilerSubject,  \* compiler.execute.request
  ProblemSubject    \* problems.execute.request

\* languageConfigs: the languages executeCode can run.
LanguageConfigs == {"go", "js", "python", "cpp"}

\* languageMap: the spellings of each language.
LanguageMap ==
  [js |-> {"js", "jscript", "javscript", "javsscript", "javascipt", "javasript",
           "javascript", "java script", "jscipt"},
   python |-> {"python", "pyt", "pyn", "pythn", "phyton", "py", "py thon", "pthon"},
   go |-> {"go", "golang", "gol", "goo", "g o", "golangg"},
   cpp |-> {"cpp", "c++", "cp", "cppp", "c plus", "cxx", "cc", "cpp "}]

normalizeLanguage(lang) ==
  IF \E l \in DOMAIN LanguageMap : lang \in LanguageMap[l]
  THEN CHOOSE l \in DOMAIN LanguageMap : lang \in LanguageMap[l]
  ELSE lang

\* DangerousPatterns: the categories, one of whose patterns is enough.
Common == {"systemOperations", "codeExecution", "resourceDepletion", "forkBombs"}
LanguagePatterns ==
  [python |-> {"dangerousModules", "dangerousOperations", "pythonResourceDepletion"},
   go |-> {"infiniteLoops", "dangerousOsFunctions", "goResourceDepletion"},
   js |-> {"dangerousModules", "dangerousOperations", "jsResourceDepletion"},
   cpp |-> {"dangerousOperations", "cppResourceDepletion"}]

\* Mutant: a language without patterns passes.
SanitizeCode_UnknownPasses(req, language, limited) ==
  IF limited /\ req.long THEN "too long"
  ELSE IF req.hits \cap Common # {} THEN "prohibited"
  ELSE IF /\ language \in DOMAIN LanguagePatterns
          /\ req.hits \cap LanguagePatterns[language] # {} THEN "prohibited"
  ELSE "clean"

\* The checks, in their order: the first that fails is the one reported.
SanitizeCode(req, language, limited) ==
  IF limited /\ req.long THEN "too long"
  ELSE IF req.hits \cap Common # {} THEN "prohibited"
  ELSE IF language \notin DOMAIN LanguagePatterns THEN "unsupported"
  ELSE IF req.hits \cap LanguagePatterns[language] # {} THEN "prohibited"
  ELSE "clean"

\* Compile decodes and limits the length; ExecuteProblemCode does neither.
Compile(req) ==
  IF ~req.base64 THEN "not base64"
  ELSE SanitizeCode(req, normalizeLanguage(req.language), TRUE)

ExecuteProblemCode(req) ==
  SanitizeCode(req, normalizeLanguage(req.language), FALSE)

\* What comes of a request: "clean" when it is a job for the pool.
Verdict(req) ==
  IF req.subject = CompilerSubject THEN Compile(req) ELSE ExecuteProblemCode(req)
=============================================================================
