----------------------------- MODULE MCAgentPool -----------------------------
(* Two hosts delegating to each other, agents for the login user and root;   *)
(* then bodies of several exchanges that both delegate to the first host.    *)
EXTENDS Composites, TLC

CONSTANTS h1, h2, root
MCRank == (Login :> 0) @@ (root :> 1)

Bare == [marker |-> FALSE, key |-> NoKey, roles |-> {"g", "h"}, attrs |-> Defaults, members |-> {}, db |-> "none"]
Full == [marker |-> TRUE, key |-> <<"old", 0>>, roles |-> {"g", "h", "r"},
         attrs |-> [login |-> TRUE, password |-> "old"], members |-> {<<"g", "r">>}, db |-> "login"]

Half == [Full EXCEPT !.attrs.login = FALSE]

At(kind, check) == [kind |-> kind, on |-> h1, check |-> check]
Marker(p, c) == At("marker", c) @@ [present |-> p]
Key(b, c) == At("key", c) @@ [probe |-> b]
Csr == At("csr", FALSE)
Asking(asked, keep, opaque) == At("role", FALSE) @@ [present |-> TRUE, keepPassword |-> keep,
                                              opaque |-> opaque, asked |-> asked]
RoleTask(p, c) == At("role", c) @@ [present |-> p, keepPassword |-> FALSE, opaque |-> FALSE,
                                asked |-> [login |-> TRUE, password |-> "new"]]
Member(p, s, c) == At("member", c) @@ [present |-> p, strict |-> s, pairs |-> << <<"g", "r">>, <<"h", "r">> >>]
Db(p, o, c) == At("db", c) @@ [present |-> p, owner |-> o]

Plan(a, b, m) == [work |-> (h1 :> a) @@ (h2 :> b), machine |-> (h1 :> m) @@ (h2 :> m)]

MCPlans ==
  {Plan(<<>>, <<>>, Bare)}
  \cup {Plan(<<Marker(p, c), Marker(p, FALSE)>>, <<Marker(p, FALSE)>>, m) :
          p \in BOOLEAN, c \in BOOLEAN, m \in {Bare, Full}}
  \cup {Plan(<<Key(b, FALSE), Csr>>, <<Key(c, FALSE), Csr>>, m) : b, c \in BOOLEAN, m \in {Bare, Full}}
  \cup {Plan(<<Csr, Key(TRUE, TRUE)>>, <<Key(TRUE, FALSE)>>, Full)}
  \cup {Plan(<<RoleTask(p, c), RoleTask(p, FALSE)>>, <<RoleTask(p, FALSE)>>, m) :
          p \in BOOLEAN, c \in BOOLEAN, m \in {Bare, Full}}
  \cup {Plan(<<Asking([login |-> TRUE], FALSE, FALSE)>>, <<Asking([password |-> "new"], k, o)>>, m) :
          k \in BOOLEAN, o \in BOOLEAN, m \in {Bare, Half}}
  \cup {Plan(<<Member(p, s, c), Member(p, s, FALSE)>>, <<RoleTask(p, FALSE)>>, m) :
          p \in BOOLEAN, s \in BOOLEAN, c \in BOOLEAN, m \in {Bare, Full}}
  \cup {Plan(<<Member(p, FALSE, FALSE)>>, <<Member(p, FALSE, FALSE)>>, Full) : p \in BOOLEAN}
  \cup {Plan(<<Db(p, o, c), Db(p, o, FALSE)>>, <<Db(p, o, FALSE)>>, m) :
          p \in BOOLEAN, o \in {"", "g"}, c \in BOOLEAN, m \in {Bare, Full}}
=============================================================================
