------------------------------ MODULE FormBody ------------------------------
(***************************************************************************)
(* How config_handler of main.c takes red and contrasena out of its        *)
(* receive buffer: strtok over what the stack holds from the start of buf  *)
(* up to the first NUL, which may stand behind buf.  A cell is a key word, *)
(* a delimiter, a character of a value or NUL; the two key words are one   *)
(* cell each.                                                              *)
(***************************************************************************)
EXTENDS Integers, Sequences, SequencesExt

CONSTANTS BufSize,       \* sizeof(buf), in cells
          StackSize,     \* the cells from the start of buf up to a NUL that is
                         \* certain to stand on the stack behind it
          SsidSize,      \* sizeof(ssid)
          PasswordSize,  \* sizeof(password)
          Chars,         \* the cells of a value as it is posted
          Escape         \* what a browser posts instead of a character that it
                         \* must not post as it is

Delim == {"&", "="}

ASSUME FormAssumption ==
  /\ BufSize \in Nat /\ BufSize >= 2
  /\ StackSize \in Nat /\ StackSize >= BufSize
  /\ SsidSize \in Nat \ {0} /\ PasswordSize \in Nat \ {0}
  /\ Chars \cap (Delim \cup {"NUL"}) = {}
  /\ \A c \in DOMAIN Escape : Escape[c] \in Seq(Chars)

\* The characters that can be typed into a field.
Typed == Chars \cup DOMAIN Escape

Posted(c) == IF c \in DOMAIN Escape THEN Escape[c] ELSE <<c>>

\* A value as application/x-www-form-urlencoded has it: a space is posted as +,
\* most other marks as % and their code.
UrlEncoded(v) ==
  LET upTo[i \in 0..Len(v)] == IF i = 0 THEN <<>> ELSE upTo[i - 1] \o Posted(v[i])
  IN  upTo[Len(v)]

\* The form of redconfig.html as a browser posts it.
Body(form) ==
  <<"red", "=">> \o UrlEncoded(form.red)
    \o <<"&", "contrasena", "=">> \o UrlEncoded(form.contrasena)

\* httpd_req_recv overwrites the first cells of buf and leaves the others.
Received(buf, chunk) ==
  [i \in 1..StackSize |-> IF i <= Len(chunk) THEN chunk[i] ELSE buf[i]]

\* The characters strtok can see.  Nothing ends them at the end of buf: after a
\* full buffer strtok reads on.
TextLength(buf) ==
  LET ends == {i \in 1..StackSize : buf[i] = "NUL"}
  IN  IF ends = {} THEN StackSize ELSE Min(ends) - 1

\* What strtok returns one after the other: the runs of characters between
\* delimiters.
Tokens(buf) ==
  LET upTo[i \in 0..StackSize] ==
        IF i = 0 THEN <<>>
        ELSE IF buf[i] \in Delim THEN upTo[i - 1]
        ELSE IF i = 1 \/ buf[i - 1] \in Delim THEN Append(upTo[i - 1], <<buf[i]>>)
        ELSE [upTo[i - 1] EXCEPT ![Len(upTo[i - 1])] = Append(@, buf[i])]
  IN  upTo[TextLength(buf)]

\* strtok puts a NUL over the delimiter that ends a token.
AfterStrtok(buf) ==
  [i \in 1..StackSize |->
     IF /\ i \in 2..TextLength(buf)
        /\ buf[i] \in Delim
        /\ buf[i - 1] \notin Delim
     THEN "NUL" ELSE buf[i]]

FirstChars(token, n) == SubSeq(token, 1, IF Len(token) < n THEN Len(token) ELSE n)

\* Mutant: room is left for the terminator twice.
CopiedShort(token, size) == FirstChars(token, size - 2)

\* strncpy of at most size - 1 characters.
Copied(token, size) == FirstChars(token, size - 1)

Keys == {<<"red">>, <<"contrasena">>}

\* One turn of the token loop: after a key the next token, whatever it is, is
\* the value.
Take(fields, token) ==
  CASE fields.expect = <<"red">> ->
         [fields EXCEPT !.ssid = Copied(token, SsidSize), !.expect = <<>>]
    [] fields.expect = <<"contrasena">> ->
         [fields EXCEPT !.password = Copied(token, PasswordSize), !.expect = <<>>]
    [] OTHER ->
         [fields EXCEPT !.expect = IF token \in Keys THEN token ELSE <<>>]

\* The fields after all tokens of buf.  expect is left at a key when strtok has
\* returned NULL for its value.
Parsed(buf, ssid, password) ==
  LET tokens == Tokens(buf)
      after[k \in 0..Len(tokens)] ==
        IF k = 0 THEN [ssid |-> ssid, password |-> password, expect |-> <<>>]
                 ELSE Take(after[k - 1], tokens[k])
  IN  after[Len(tokens)]
=============================================================================
