------------------------------- MODULE MCRings -------------------------------
(***************************************************************************)
(* For TLC, two rings of which the consumers may not keep up: the          *)
(* broadcast channel of the web server (WebFeed) and the ring of the C     *)
(* port (RawRing).  A behaviour is one of the first or one of the second.  *)
(***************************************************************************)
EXTENDS WebFeed, RawRing

VARIABLE part

mc_vars == <<part, vars, raw_vars>>

MCInit == part \in {"web", "poll"} /\ Init /\ RawInit

MCNext ==
  \/ part = "web" /\ Next /\ UNCHANGED <<part, raw_vars>>
  \/ part = "poll" /\ RawNext /\ UNCHANGED <<part, vars>>

Web(step) == part = "web" /\ step /\ UNCHANGED <<part, raw_vars>>

MCSpec ==
  /\ MCInit /\ [][MCNext]_mc_vars
  /\ WF_mc_vars(Web(Forwarder))
  /\ \A c \in Conns : WF_mc_vars(Web(Recv(c)))
  /\ \A c \in Readers : WF_mc_vars(Web(Sent(c)))
=============================================================================
