----------------------------- MODULE MCIMServer -----------------------------
(* The scripts of the server's model-checking runs: what each client sends. *)
EXTENDS ServerInvariants

Login(n) == [op |-> "login", name |-> n]
All      == [op |-> "all", name |-> "ann"]
To(n)    == [op |-> "to", name |-> n]
Bad      == [op |-> "bad", name |-> "ann"]

\* ann talks to bob, and either may leave.
TwoTalk    == << <<Login("ann"), All>>, <<Login("bob")>> >>
\* Two logins and nothing else: soon there is nothing to do.
TwoLogins  == << <<Login("ann")>>, <<Login("bob")>> >>
\* Three connections over two descriptors: the third reuses the number of the second, and
\* ann writes to bob whether he is still there or not.  (A login is announced to all.)
Reuse      == << <<Login("ann"), To("bob")>>, <<Login("bob")>>, <<Login("cid")>> >>
=============================================================================
