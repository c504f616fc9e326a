--------------------------------- MODULE MCCAbi ---------------------------------
(* The instance of CAbi for TLC. *)
EXTENDS CAbi, TLC

CONSTANTS t1, t2, t3, b1, b2, b3

MCThread == {t1, t2, t3}
MCBlock == {b1, b2, b3}
MCNumber == "0" :> 0 @@ "80" :> 80 @@ "443" :> 443 @@ "8080" :> 8080
              @@ "65535" :> 65535 @@ "65536" :> 65536

MCToken == Schemes \cup Marks \cup DOMAIN MCNumber \cup {"h", "p", "q", "ftp", "8x", "[", "]"}

\* Texts that are read in every way parse_endpoint has, and every way it refuses.
MCConfigText ==
  {<<>>, <<"h">>, <<"ftp", "://", "h">>, <<"http", "://">>, <<"https", "://", "/", "p">>,
   <<"http", "://", "h", ":">>, <<"http", "://", "h", ":", "8x">>,
   <<"http", "://", "[", ":", ":", "]", ":", "80">>, <<"http", "://", ":", "443">>}
  \cup {<<scheme, "://", "h", ":", port>> \o base :
          scheme \in Schemes, port \in DOMAIN MCNumber, base \in {<<>>, <<"/", "p", ":", "80">>}}
  \cup {<<scheme, "://", "h">> \o base : scheme \in Schemes, base \in {<<>>, <<"/">>}}

MCDefault == Located("https", <<"q">>, 443, <<>>)

\* Bound: a third thread takes part where the endpoint is the default one.  It
\* is there for a call that runs while a second is closing and a third enters.
ThirdWithDefault == pc[t3] # "idle" => endpoint = MCDefault
=============================================================================
