---------------------------- MODULE MCHttpServer ----------------------------
(* An instance of HttpServer for TLC.                                       *)
EXTENDS HttpServer, TLC

CONSTANTS c1, c2, c3

(* One connection, cut in every way; three connections over two            *)
(* descriptors; a cut connection whose client goes away; a cut connection   *)
(* beside another.                                                          *)
Cut == [script |-> (c1 :> <<"post", "chunked">>) @@ (c2 :> <<>>) @@ (c3 :> <<>>),
        hasty |-> {}, choppy |-> {c1}]

Crowd == [script |-> (c1 :> <<"get">>) @@ (c2 :> <<"get">>) @@ (c3 :> <<"get">>),
          hasty |-> {c2}, choppy |-> {}]

Lost == [script |-> (c1 :> <<"post">>) @@ (c2 :> <<>>) @@ (c3 :> <<>>),
         hasty |-> {c1}, choppy |-> {c1}]

Mixed == [script |-> (c1 :> <<"get">>) @@ (c2 :> <<"closing">>) @@ (c3 :> <<>>),
          hasty |-> {}, choppy |-> {c1}]

MCPlans == {Cut, Crowd, Lost, Mixed}
=============================================================================
