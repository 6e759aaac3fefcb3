----------------------------- MODULE MCAsciiAlias ------------------------------
(* Directories with a plain name, a Unicode one, and a Unicode one that has an 8.3 name; *)
(* files whose names CP932 can spell, that it cannot, and that have an 8.3 name instead. *)
EXTENDS AsciiAlias

CONSTANTS plainDir, shortDir, uniDir, plainName, uniName, p1, p2

MCPresent == {<<uniDir, plainName>>, <<plainDir, uniName>>, <<shortDir, uniName>>, <<shortDir, plainName>>}
MCFiles == MCPresent \union {<<plainDir, plainName>>}
MCShort == {shortDir, <<shortDir, uniName>>, <<shortDir, plainName>>}
================================================================================
