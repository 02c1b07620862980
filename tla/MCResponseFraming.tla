--------------------------- MODULE MCResponseFraming ---------------------------
(* ResponseFraming with short bodies and every header map of interest. *)
EXTENDS ResponseFraming

MCChars == {"Content-Type", "content-type", "Content-Length", "text/plain", "text/html",
            "0", "1", "2", "3"}
MCtolower == [c \in MCChars |-> CASE c = "Content-Length" -> 1
                                  [] c \in {"Content-Type", "content-type"} -> 2
                                  [] OTHER -> 3]
MCDecimal == [n \in 0..3 |-> <<<<"0", "1", "2", "3">>[n + 1]>>]

Html == <<"text/html">>
MCHeaderMaps == {
    <<>>,
    ContentType :> Html,
    <<"content-type">> :> Html,
    ContentLength :> <<"0">>,
    ContentLength :> <<"2">> @@ <<"content-type">> :> Html }
MCBodies == {<<>>, <<"x">>, <<"x", "y">>}
MCErrorPage == <<"p", "q">>
===============================================================================
