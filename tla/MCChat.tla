------------------------------- MODULE MCChat -------------------------------
(* The scripts of the runs with IMClient peers. *)
EXTENDS Chat, MCIMServer

\* Both clients talk to all, more than their sockets hold.
BothTalk == << <<Login("ann"), All, All>>, <<Login("bob"), All, All>> >>

\* ann talks to all, more than bob's socket holds, while bob types more than the server's
\* end of his connection holds.
AnnTalks == << <<Login("ann"), All, All, All>>, <<Login("bob"), Bad, Bad>> >>

\* Two clients have connected and logged in, first ann and then bob, ann has read the notice
\* about bob, and both threads begin a round: a state that ChatSpec reaches.
LoggedIn ==
  /\ sock = [c \in Client |-> "up"] /\ room = [c \in Client |-> SockCap]
  /\ inq = [c \in Client |-> <<>>] /\ ncmd = [c \in Client |-> 1]
  /\ out = << <<[src |-> 2, seq |-> 1]>>, <<>> >> /\ opened = Client
  /\ mem = [c \in Client |-> "live"] /\ name = <<"ann", "bob">>
  /\ pub = [c \in Client |-> "SUCC"] /\ socket_id = [c \in Client |-> c]
  /\ writing_buffer = [c \in Client |-> <<>>] /\ writing_lock = {}
  /\ clients = <<1, 2>> /\ client_count = 2
  /\ is_running = TRUE /\ sign_to_flush_msg = FALSE /\ alive = TRUE /\ faults = 0
  /\ lpc = "accept" /\ accepted = 2
  /\ rpc = "snapshot" /\ polling = <<>> /\ rindex = 1 /\ msgs = <<>> /\ redirect_msg = NoMsg
  /\ rtargets = <<>> /\ rpos = 1 /\ need_to_flush_msg = FALSE
  /\ wpc = "snapshot" /\ wclients = <<>> /\ windex = 1 /\ already_written = FALSE
  /\ wtargets = <<>> /\ wpos = 1 /\ sent_count = FALSE /\ due = {}
  /\ cpc = [c \in Client |-> "poll"]

\* What they do from there on.
LoggedInSpec == LoggedIn /\ [][ChatNext]_chatVars /\ ChatFairness
=============================================================================
