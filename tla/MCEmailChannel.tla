-------------------------- MODULE MCEmailChannel --------------------------
(* Small alphabet: 0 = NUL, 1 = newline, 2 and 3 = the numerals, 4 = '('.  *)
EXTENDS EmailChannel

MCPrintable == {2, 3, 4}
MCNumerals == <<2, 3>>

Plain(from, to, subject, body) ==
  [challenge |-> <<0>>, from |-> from, to |-> to, subject |-> subject, body |-> body,
   has_attachment |-> 0, att_name |-> << >>, att_size |-> 0, att_hash |-> << >>]

Attached(name, size) ==
  [Plain(<<2>>, <<3>>, <<2>>, <<3>>) EXCEPT
     !.has_attachment = 1, !.att_name = name, !.att_size = size, !.att_hash = <<4>>]

MCEmails ==
  {Plain(<<2>>, <<3>>, <<2>>, <<3>>),
   Plain(<<2, 3>>, <<4>>, <<3>>, <<3, 1>>),
   Plain(<<2>>, <<3>>, <<2, 2>>, <<2, 2, 2, 2, 2, 2>>),
   Attached(<<2>>, 1), Attached(<<2, 4>>, 624), Attached(<<3, 4>>, 0)}
============================================================================
