-------------------------------- MODULE MCRouter --------------------------------
(* Router with patterns that overlap, one with no, one and two "$" behind it, *)
(* and one that std::regex rejects.                                           *)
EXTENDS Router

MCPatterns == {<<"/">>, <<"/", "$">>, <<"/", "$", "$">>, <<"/.*">>, <<"(">>}
MCLanguage ==
    [k \in MCPatterns \cup {Key(p) : p \in MCPatterns} |->
        CASE k[1] = "/"   -> {"/"}
          [] k[1] = "/.*" -> {"/", "/a/", "empty"}
          [] OTHER       -> {}]
MCMalformed == {<<"(", "$">>}
MCUris == {"/", "/a/", "//", "empty"}

CONSTANTS h1, h2
MCOverrides == [hd \in {h1, h2} |-> IF hd = h1 THEN {"GET"} ELSE {"GET", "POST"}]
===============================================================================
