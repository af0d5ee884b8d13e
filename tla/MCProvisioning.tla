--------------------------- MODULE MCProvisioning ---------------------------
(* Small instances of Provisioning. *)
EXTENDS Provisioning

\* What a browser posts for an @ and for a space.
Escapes == "@" :> <<"%", "4", "0">> @@ " " :> <<"+">>

\* Values that are empty, too long as they are posted, or the word red, and values
\* with a character to escape.
ShortForms ==
  [red : {<<>>, <<"a">>, <<" ">>},
   contrasena : {<<"b">>, <<"red">>, <<"@">>}]

\* A cleared stack and a printable leftover, or an unprintable one as well.
SomeJunk == {"NUL", "x"}
AnyJunk == {"NUL", "x", "DEL"}

FlashedFile == [Red |-> <<"b">>, Pass |-> <<"b">>]
=============================================================================
