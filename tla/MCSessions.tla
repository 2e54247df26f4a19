----------------------------- MODULE MCSessions -----------------------------
(* Instances of Sessions for TLC. *)
EXTENDS Sessions, TLC

CONSTANTS c1, c2, u1, u2

\* One user per connection.
OnePerConn   == {<<c1, u1>>, <<c2, u2>>}
\* Anybody logs in anywhere.
Anywhere   == {c1, c2} \X {u1, u2}
\* The administrator makes the other user one, and withdraws it.
Promotions == {<<u2, "Admin">>, <<u2, "User">>}

=============================================================================
