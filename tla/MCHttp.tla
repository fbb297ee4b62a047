------------------------------- MODULE MCHttp -------------------------------
(* serve_http() with requests at and around every limit.                   *)
EXTENDS HttpServe

MCBytes == {"cr", "lf", "nul", "g", "x", "L", "T", "k", "i", "0", "1", "2", "3"}
MCDigits == {"0", "1", "2", "3"}
MCValue(d) == CASE d = "0" -> 0 [] d = "1" -> 1 [] d = "2" -> 2 [] OTHER -> 3

Lines == {<<"g">>, <<"g", "g">>, <<"g", "g", "g">>, <<"x">>, <<>>}

\* Headers with the body they declare.
Messages ==
  {<<<<>>, <<>>>>,
   <<<<<<"k">>>>, <<>>>>,
   <<<<<<"k", "cr", "k">>, <<"L", "0">>>>, <<>>>>,
   <<<<<<"L", "2">>>>, <<"cr", "lf">>>>,
   <<<<<<"T", "i">>, <<"L", "1">>>>, <<"g">>>>,
   <<<<<<"L", "2">>, <<"L", "2">>>>, <<"g", "lf">>>>,
   <<<<<<"L", "1">>, <<"L", "2">>>>, <<"g", "g">>>>,
   <<<<<<"L", "3">>>>, <<"g", "g", "g">>>>,
   <<<<<<"L", "x">>>>, <<>>>>,
   <<<<<<"L">>>>, <<>>>>,
   <<<<<<"T", "x">>>>, <<"g">>>>,
   <<<<<<"x">>>>, <<>>>>,
   <<<<<<"k", "k", "k", "k">>, <<"k", "k", "k">>>>, <<>>>>}

MCRequests ==
  {[line |-> l, headers |-> <<>>, body |-> <<>>] : l \in Lines}
    \cup {[line |-> <<"g">>, headers |-> m[1], body |-> m[2]] : m \in Messages}

MCWorkloads == {<<r, s>> : r, s \in MCRequests}
MCStreams == {Encode(w) : w \in MCWorkloads}

=============================================================================
