-------------------------- MODULE ConnectionService --------------------------
(***************************************************************************)
(* What the accept path and Disconnect promise together: a connection is   *)
(* served once, by one Session object, and is never served again after it  *)
(* ended; an object serves one connection at a time.                       *)
(***************************************************************************)
CONSTANTS Conns,      \* connections
          Sessions    \* Session objects

VARIABLES serving,    \* pairs <<c, s>>: object s serves connection c
          seen        \* connections that have been served or refused

csvars == <<serving, seen>>

Init == serving = {} /\ seen = {}

Serve(c, s) ==
  /\ c \notin seen
  /\ \A p \in serving : p[2] # s
  /\ serving' = serving \cup {<<c, s>>}
  /\ seen' = seen \cup {c}

\* A connection closed before any object served it.
Refuse(c) == c \notin seen /\ seen' = seen \cup {c} /\ UNCHANGED serving

End(p) == serving' = serving \ {p} /\ UNCHANGED seen

Next ==
  \/ \E c \in Conns : Refuse(c) \/ \E s \in Sessions : Serve(c, s)
  \/ \E p \in serving : End(p)

Spec == Init /\ [][Next]_csvars
=============================================================================
